---------------------------- MODULE Spec2Model ----------------------------
(***************************************************************************)
(* Storage Class Library (SCL): the AVL tree container CAVLTree with its   *)
(* node type SAVLNode (source/AVLTree.cpp) over the CContainer base        *)
(* (include/Base.h).                                                       *)
(*                                                                         *)
(* The heap of SAVLNode objects is a function from node addresses to node  *)
(* records; payload objects (CSortablePackage) are addresses 1..MaxAddr,   *)
(* each carrying the value ValOf(address) that the payload's virtual       *)
(* operator< and operator== compare.  Every public method of CAVLTree is   *)
(* one action.                                                             *)
(*                                                                         *)
(* Specifications: Spec (any calls, allocation succeeding), SpecNoMem      *)
(* (Spec with failing allocations), SpecScript (two fixed call sequences), *)
(* SpecGrown (trees of up to MaxGrown nodes grown by scripted inserts),    *)
(* SpecPair (two trees given the same calls), SpecRotate (the rotations of *)
(* SAVLNode on their own) and, for the other containers, SpecBuffer        *)
(* (include/circularBuffer.hpp), SpecThreads (the same buffer with         *)
(* MTA = true and three threads), SpecVector (include/vectorSorted.hpp),   *)
(* SpecBimap (include/bimap.hpp) and SpecHierarchy                         *)
(* (include/stackHierarchy.hpp).                                           *)
(***************************************************************************)
EXTENDS Integers, Sequences, FiniteSets, Bags, TLC

\* ------------------------------------------------------------------ bounds
\* Payload objects the caller owns: addresses 1..MaxAddr.
MaxAddr == 3
\* SAVLNode objects the heap can hold at one time.
MaxNodes == 6
\* Calls that change the container in one run.
MaxSteps == 6

\* Values inserted into a tree grown by a scripted run, 1 .. MaxGrown.
MaxGrown == 12
\* Erase calls that follow the inserts of such a run.
MaxCut == 1

\* Largest buffer size (template parameter bufferSize) of a circular buffer.
MaxCap == 3
\* Distinct element values pushed into a circular buffer.
MaxElem == 2
\* Elements a circular buffer stores between two clears.
MaxPush == 5
\* The most nodes of a subtree that a rotation is applied to on its own.
MaxShape == 4

\* Distinct values stored in a sorted vector.
MaxKey == 4
\* Longest initializer list a sorted vector is constructed from.
MaxInit == 2
\* Elements a sorted vector holds at one time.
MaxVec == 5

\* Distinct keys on either side of a bimap.
MaxSide == 2
\* Pairs a bimap keeps in its value storage between two clears.
MaxStore == 3

\* Entries of the input data of a hierarchy, with the IDs 1 .. MaxId.
MaxId == 4

\* ----------------------------------------------------------- pointer values
\* nullptr
NIL == 0
\* An indeterminate pointer value: the constructor leaves root_ unset.
WILD == -1

Addr == 1 .. MaxAddr
NodeId == 1 .. MaxNodes

\* The value a payload object carries.  The first two addresses hold their
\* values in the opposite order to their addresses and the last address holds
\* the same value as the first, so that address order and value order differ
\* and equal values sit in distinct objects.
\* The payload objects of a scripted run lie above MaxAddr: the object at
\* address MaxAddr + v carries the value v.
NumVals == MaxAddr - 1
ValOf(p) ==
  IF p > MaxAddr THEN p - MaxAddr
  ELSE LET v == ((p - 1) % NumVals) + 1
       IN  IF v = 1 THEN 2 ELSE IF v = 2 THEN 1 ELSE v

\* CSortablePackage::operator< and operator== as the payload type supplies them.
PkgLess(a, b) == ValOf(a) < ValOf(b)
PkgEq(a, b) == ValOf(a) = ValOf(b)

\* Built-in comparison of two payload pointers.
PtrLess(a, b) == a < b

Abs(x) == IF x < 0 THEN -x ELSE x
Not(dir) == 1 - dir

VARIABLES
  root_,            \* CAVLTree::root_
  allowDuplicates_, \* CAVLTree::allowDuplicates_
  bOwnsPackages,    \* CContainer::bOwnsPackages
  lPackageCount,    \* CContainer::lPackageCount
  heap,             \* the live SAVLNode objects
  deleted,          \* payload objects the container has deleted
  undef,            \* undefined behaviour has been executed
  last,             \* the latest call: method, argument, result
  nInsert,          \* insert calls that returned true since the last clear
  nErase,           \* erase calls that returned true since the last clear
  steps             \* calls that changed the container

\* A scripted run on the tree above: the calls still to be made.
VARIABLES script

\* Two further trees driven side by side by the same calls.
VARIABLES twin

\* SCL::circularBuffer<T, bufferSize, acceptDataWhenFull, MTA>
VARIABLES
  bufferSize,          \* template parameter; 0 while no buffer is modelled
  acceptDataWhenFull,  \* template parameter
  buffer,              \* circularBuffer::buffer, cells 0 .. bufferSize - 1
  elementCount,        \* circularBuffer::elementCount
  headIndex,           \* circularBuffer::headIndex
  tailIndex,           \* circularBuffer::tailIndex
  pushed,              \* the elements stored since the last clear, oldest first
  popped,              \* how many of them pop() has removed
  overrun,             \* a push has found the buffer full since the last clear
  cbLast               \* the latest call on the buffer and its result

\* SCL::vector_sorted<T, Compare, Allocator>
VARIABLES
  data_,               \* vector_sorted::data_, positions 1 .. size()
  vsLast               \* the latest call on the vector and its result

\* SCL::bimap<LHS_T, RHS_T, SVO>
VARIABLES
  SVO,                 \* template parameter: the maps hold the keys themselves
  lhsMap,              \* bimap::lhsMap
  rhsMap,              \* bimap::rhsMap
  valueStorage,        \* bimap::valueStorage, used where SVO is false
  bmLast               \* the latest call on the bimap and its result

\* SCL::parentChild<I, V, II, PI, C, Sorted, Compare>
VARIABLES
  II,                  \* template parameter: the get index of the ID field
  inputData,           \* parentChild::inputData, the caller's container
  idMap,               \* parentChild::idMap
  pidMap,              \* parentChild::pidMap
  inputProcessed,      \* parentChild::inputProcessed
  pcLast               \* the latest call on the hierarchy and its result

\* Threads on one circularBuffer with MTA = true: where the thread that pushes,
\* the thread that pops and a thread that reads stand in their calls.
VARIABLES
  pushPc,              \* push(value_type &&): "idle", "tested" or "wrap"
  pushFull,            \* the value size() == capacity() had when push tested it
  pushElem,            \* the element of the push under way
  popPc,               \* pop(): "idle", or "tested" after !empty() was true
  readPc               \* front() or back() after !empty() was true, or "idle"

treeVars == <<root_, allowDuplicates_, bOwnsPackages, lPackageCount, heap, deleted,
              undef, last, nInsert, nErase, steps>>
cbVars == <<bufferSize, acceptDataWhenFull, buffer, elementCount, headIndex,
            tailIndex, pushed, popped, overrun, cbLast>>

vsVars == <<data_, vsLast>>
bmVars == <<SVO, lhsMap, rhsMap, valueStorage, bmLast>>
pcVars == <<II, inputData, idMap, pidMap, inputProcessed, pcLast>>
mtVars == <<pushPc, pushFull, pushElem, popPc, readPc>>

vars == <<treeVars, script, twin, cbVars, vsVars, bmVars, pcVars, mtVars>>

\* ------------------------------------------------------------------ SAVLNode

Children(l, r) == [d \in {0, 1} |-> IF d = 0 THEN l ELSE r]

\* SAVLNode::SAVLNode(PSortablePackage)
NewNode(newData) ==
  [balance |-> 0, nodesbelow |-> 1, nodes |-> Children(NIL, NIL), data |-> newData]

\* operator new: the lowest free node address.
Alloc(h) ==
  CHOOSE n \in 1 .. Cardinality(DOMAIN h) + 1 :
    n \notin DOMAIN h /\ \A m \in 1 .. n - 1 : m \in DOMAIN h

\* h with node n constructed on it
HeapNew(h, n, newData) ==
  [m \in DOMAIN h \cup {n} |-> IF m = n THEN NewNode(newData) ELSE h[m]]

\* delete of a node
HeapDelete(h, n) == [m \in DOMAIN h \ {n} |-> h[m]]

\* SAVLNode::rotateSingle(dir) on node this; the result is the heap and the
\* returned pointer.
rotateSingle(h, this, dir) ==
  LET save == h[this].nodes[Not(dir)]
      h1 == [h EXCEPT ![this].nodesbelow = @ - h[save].nodesbelow]
      h2 == IF h1[this].nodes[dir] # NIL
              THEN [h1 EXCEPT ![save].nodesbelow = @ + h1[h1[this].nodes[dir]].nodesbelow]
              ELSE h1
      h3 == [h2 EXCEPT ![this].nodes[Not(dir)] = h2[save].nodes[dir]]
      h4 == [h3 EXCEPT ![save].nodes[dir] = this]
  IN  [heap |-> h4, ret |-> save]

\* SAVLNode::rotateDouble(dir)
rotateDouble(h, this, dir) ==
  LET child == h[this].nodes[Not(dir)]
      save == h[child].nodes[dir]
      h1 == [h EXCEPT ![child].nodes[dir] = h[save].nodes[Not(dir)]]
      h2 == [h1 EXCEPT ![save].nodes[Not(dir)] = h1[this].nodes[Not(dir)]]
      h3 == [h2 EXCEPT ![this].nodes[Not(dir)] = save]
      save2 == h3[this].nodes[Not(dir)]
      h4 == [h3 EXCEPT ![this].nodes[Not(dir)] = h3[save2].nodes[dir]]
      h5 == [h4 EXCEPT ![save2].nodes[dir] = this]
  IN  [heap |-> h5, ret |-> save2]

\* adjustBalance with the two leaning cases exchanged.
adjustBalanceSwapped(h, this, dir, bal) ==
  LET n == h[this].nodes[dir]
      nn == h[n].nodes[Not(dir)]
      h1 == IF h[nn].balance = 0
              THEN [h EXCEPT ![n].balance = 0, ![this].balance = 0]
            ELSE IF h[nn].balance = bal
              THEN [h EXCEPT ![this].balance = 0, ![n].balance = bal]
              ELSE [h EXCEPT ![this].balance = -bal, ![n].balance = 0]
  IN  [h1 EXCEPT ![nn].balance = 0]

\* SAVLNode::adjustBalance(dir, bal)
adjustBalance(h, this, dir, bal) ==
  LET n == h[this].nodes[dir]
      nn == h[n].nodes[Not(dir)]
      h1 == IF h[nn].balance = 0
              THEN [h EXCEPT ![n].balance = 0, ![this].balance = 0]
            ELSE IF h[nn].balance = bal
              THEN [h EXCEPT ![this].balance = -bal, ![n].balance = 0]
              ELSE [h EXCEPT ![this].balance = 0, ![n].balance = bal]
  IN  [h1 EXCEPT ![nn].balance = 0]

\* SAVLNode::insertBalance(dir)
insertBalance(h, this, dir) ==
  LET n == h[this].nodes[dir]
      bal == IF dir = 0 THEN -1 ELSE 1
  IN  IF h[n].balance = bal
        THEN rotateSingle([h EXCEPT ![n].balance = 0, ![this].balance = 0], this, Not(dir))
        ELSE rotateDouble(adjustBalance(h, this, dir, bal), this, Not(dir))

\* SAVLNode::removeBalance(dir, done); the result carries the heap, the
\* returned pointer and the value left in done.
removeBalance(h, this, dir, done) ==
  LET n == h[this].nodes[Not(dir)]
      bal == IF dir = 0 THEN -1 ELSE 1
  IN  IF h[n].balance = -bal
        THEN LET r == rotateSingle([h EXCEPT ![n].balance = 0, ![this].balance = 0], this, dir)
             IN  [heap |-> r.heap, ret |-> r.ret, done |-> done]
      ELSE IF h[n].balance = bal
        THEN LET r == rotateDouble(adjustBalance(h, this, Not(dir), -bal), this, dir)
             IN  [heap |-> r.heap, ret |-> r.ret, done |-> done]
        ELSE LET r == rotateSingle([h EXCEPT ![this].balance = -bal, ![n].balance = bal], this, dir)
             IN  [heap |-> r.heap, ret |-> r.ret, done |-> TRUE]

\* ------------------------------------------------------------------ CAVLTree

\* The search loop of CAVLTree::insert: the path from current to the node with
\* an empty link on the side toInsert belongs, as the stacks nodeStack and
\* dirStack (element i + 1 here is index i of the C array).
RECURSIVE InsertSearch(_, _, _, _, _)
InsertSearch(h, current, toInsert, nodeStack, dirStack) ==
  LET dir == IF PkgLess(h[current].data, toInsert) THEN 1 ELSE 0
      ns == Append(nodeStack, current)
      ds == Append(dirStack, dir)
  IN  IF h[current].nodes[dir] = NIL
        THEN [nodeStack |-> ns, dirStack |-> ds]
        ELSE InsertSearch(h, h[current].nodes[dir], toInsert, ns, ds)

\* The walk back of insert that goes on to the node above after a rotation.
RECURSIVE InsertWalkOn(_, _, _, _, _)
InsertWalkOn(h, root, nodeStack, dirStack, top) ==
  LET t == top - 1
  IN  IF t < 0 THEN [heap |-> h, root |-> root]
      ELSE
        LET n == nodeStack[t + 1]
            h1 == [h EXCEPT ![n].balance = @ + (IF dirStack[t + 1] = 0 THEN -1 ELSE 1)]
            h2 == [h1 EXCEPT ![n].nodesbelow = @ + 1]
        IN  IF h2[n].balance = 0 THEN [heap |-> h2, root |-> root]
            ELSE IF Abs(h2[n].balance) > 1
              THEN LET r == insertBalance(h2, n, dirStack[t + 1])
                   IN  IF t # 0
                         THEN InsertWalkOn(
                                [r.heap EXCEPT ![nodeStack[t]].nodes[dirStack[t]] = r.ret],
                                root, nodeStack, dirStack, t)
                         ELSE [heap |-> r.heap, root |-> r.ret]
              ELSE InsertWalkOn(h2, root, nodeStack, dirStack, t)

\* The walk back up the search path of CAVLTree::insert, entered with top as
\* it stands before the loop test --top >= 0.
RECURSIVE InsertWalk(_, _, _, _, _)
InsertWalk(h, root, nodeStack, dirStack, top) ==
  LET t == top - 1
  IN  IF t < 0 THEN [heap |-> h, root |-> root]
      ELSE
        LET n == nodeStack[t + 1]
            h1 == [h EXCEPT ![n].balance = @ + (IF dirStack[t + 1] = 0 THEN -1 ELSE 1)]
            h2 == [h1 EXCEPT ![n].nodesbelow = @ + 1]
        IN  IF h2[n].balance = 0 THEN [heap |-> h2, root |-> root]
            ELSE IF Abs(h2[n].balance) > 1
              THEN LET r == insertBalance(h2, n, dirStack[t + 1])
                   IN  IF t # 0
                         THEN [heap |-> [r.heap EXCEPT ![nodeStack[t]].nodes[dirStack[t]] = r.ret],
                               root |-> root]
                         ELSE [heap |-> r.heap, root |-> r.ret]
              ELSE InsertWalk(h2, root, nodeStack, dirStack, t)

\* insert that leaves the tree alone when the search path holds a payload
\* equal to toInsert.
TreeInsertUnique(h, root, toInsert) ==
  IF root = NIL
    THEN LET n == Alloc(h) IN [heap |-> HeapNew(h, n, toInsert), root |-> n]
    ELSE
      LET s == InsertSearch(h, root, toInsert, <<>>, <<>>)
          top == Len(s.nodeStack)
          current == s.nodeStack[top]
          n == Alloc(h)
          h1 == [HeapNew(h, n, toInsert) EXCEPT ![current].nodes[s.dirStack[top]] = n]
          h2 == [h1 EXCEPT ![current].nodesbelow = @ + 1]
      IN  IF \E i \in 1 .. top : PkgEq(h[s.nodeStack[i]].data, toInsert)
            THEN [heap |-> h, root |-> root]
            ELSE InsertWalk(h2, root, s.nodeStack, s.dirStack, top)

\* The body of CAVLTree::insert on the tree (h, root), allocation succeeding:
\* the new heap and root.
TreeInsert(h, root, toInsert) ==
  IF root = NIL
    THEN LET n == Alloc(h) IN [heap |-> HeapNew(h, n, toInsert), root |-> n]
    ELSE
      LET s == InsertSearch(h, root, toInsert, <<>>, <<>>)
          top == Len(s.nodeStack)
          current == s.nodeStack[top]
          n == Alloc(h)
          h1 == [HeapNew(h, n, toInsert) EXCEPT ![current].nodes[s.dirStack[top]] = n]
          h2 == [h1 EXCEPT ![current].nodesbelow = @ + 1]
      IN  InsertWalk(h2, root, s.nodeStack, s.dirStack, top)

\* The search loop of CAVLTree::erase: payloads are matched by operator==, and
\* the side to descend is chosen by comparing the two payload pointers.
RECURSIVE EraseSearch(_, _, _, _, _)
EraseSearch(h, current, toRemove, up, upd) ==
  IF current = NIL THEN [found |-> FALSE, current |-> NIL, up |-> up, upd |-> upd]
  ELSE IF PkgEq(h[current].data, toRemove)
    THEN [found |-> TRUE, current |-> current, up |-> up, upd |-> upd]
    ELSE LET dir == IF PtrLess(h[current].data, toRemove) THEN 1 ELSE 0
         IN  EraseSearch(h, h[current].nodes[dir], toRemove,
                         Append(up, current), Append(upd, dir))

\* The descent to the inorder successor with no step of it saved on the path.
RECURSIVE HeirSearchUnsaved(_, _, _, _)
HeirSearchUnsaved(h, heir, up, upd) ==
  IF h[heir].nodes[0] # NIL
    THEN HeirSearchUnsaved(h, h[heir].nodes[0], up, upd)
    ELSE [heir |-> heir, up |-> up, upd |-> upd]

\* The loop of CAVLTree::erase that saves the path to the inorder successor.
RECURSIVE HeirSearch(_, _, _, _)
HeirSearch(h, heir, up, upd) ==
  IF h[heir].nodes[0] # NIL
    THEN HeirSearch(h, h[heir].nodes[0], Append(up, heir), Append(upd, 0))
    ELSE [heir |-> heir, up |-> up, upd |-> upd]

\* The walk back of erase that goes on to the node above after every rotation.
RECURSIVE EraseWalkUndone(_, _, _, _, _, _)
EraseWalkUndone(h, root, up, upd, top, done) ==
  LET t == top - 1
  IN  IF t < 0 THEN [heap |-> h, root |-> root]
      ELSE
        LET n == up[t + 1]
            h1 == [h EXCEPT ![n].balance = @ + (IF upd[t + 1] # 0 THEN -1 ELSE 1)]
        IN  IF Abs(h1[n].balance) = 1 THEN [heap |-> h1, root |-> root]
            ELSE IF Abs(h1[n].balance) > 1
              THEN LET r == removeBalance(h1, n, upd[t + 1], done)
                       up2 == [up EXCEPT ![t + 1] = r.ret]
                   IN  IF t # 0
                         THEN EraseWalkUndone([r.heap EXCEPT ![up[t]].nodes[upd[t]] = r.ret],
                                              root, up2, upd, t, done)
                         ELSE EraseWalkUndone(r.heap, r.ret, up2, upd, t, done)
              ELSE EraseWalkUndone(h1, root, up, upd, t, done)

\* The walk back up the search path of CAVLTree::erase, entered with top as it
\* stands before the loop test --top >= 0 && !done.
RECURSIVE EraseWalk(_, _, _, _, _, _)
EraseWalk(h, root, up, upd, top, done) ==
  LET t == top - 1
  IN  IF t < 0 \/ done THEN [heap |-> h, root |-> root]
      ELSE
        LET n == up[t + 1]
            h1 == [h EXCEPT ![n].balance = @ + (IF upd[t + 1] # 0 THEN -1 ELSE 1)]
        IN  IF Abs(h1[n].balance) = 1 THEN [heap |-> h1, root |-> root]
            ELSE IF Abs(h1[n].balance) > 1
              THEN LET r == removeBalance(h1, n, upd[t + 1], done)
                       up2 == [up EXCEPT ![t + 1] = r.ret]
                   IN  IF t # 0
                         THEN EraseWalk([r.heap EXCEPT ![up[t]].nodes[upd[t]] = r.ret],
                                        root, up2, upd, t, r.done)
                         ELSE EraseWalk(r.heap, r.ret, up2, upd, t, r.done)
              ELSE EraseWalk(h1, root, up, upd, t, done)

\* The removal of the found node current in CAVLTree::erase and the walk back:
\* the new heap and root, and the payload object deleted (NIL when none is).
TreeRemove(h, root, owns, current, up, upd) ==
  IF h[current].nodes[0] = NIL \/ h[current].nodes[1] = NIL
    THEN
      LET dir == IF h[current].nodes[0] = NIL THEN 1 ELSE 0
          top == Len(up)
          h1 == IF top # 0
                  THEN [h EXCEPT ![up[top]].nodes[upd[top]] = h[current].nodes[dir]]
                  ELSE h
          root1 == IF top # 0 THEN root ELSE h[current].nodes[dir]
          w == EraseWalk(HeapDelete(h1, current), root1, up, upd, top, FALSE)
      IN  [heap |-> w.heap, root |-> w.root,
           freed |-> IF owns THEN h[current].data ELSE NIL]
    ELSE
      LET s == HeirSearch(h, h[current].nodes[1], Append(up, current), Append(upd, 1))
          top == Len(s.up)
          h1 == [h EXCEPT ![current].data = h[s.heir].data]
          side == IF s.up[top] = current THEN 1 ELSE 0
          h2 == [h1 EXCEPT ![s.up[top]].nodes[side] = h1[s.heir].nodes[1]]
          w == EraseWalk(HeapDelete(h2, s.heir), root, s.up, s.upd, top, FALSE)
      IN  [heap |-> w.heap, root |-> w.root, freed |-> NIL]

\* The loop of CAVLTree::clear from node current with the stack nodeStack (its
\* top is the last element): the heap left and the payload objects deleted.
RECURSIVE ClearWalk(_, _, _, _, _)
ClearWalk(h, current, nodeStack, owns, freed) ==
  IF current = NIL THEN [heap |-> h, freed |-> freed]
  ELSE IF h[current].nodes[0] # NIL
    THEN ClearWalk(h, h[current].nodes[0], Append(nodeStack, current), owns, freed)
  ELSE IF h[current].nodes[1] # NIL
    THEN ClearWalk(h, h[current].nodes[1], Append(nodeStack, current), owns, freed)
  ELSE
    LET t == nodeStack[Len(nodeStack)]
        fr == IF owns /\ h[current].data # NIL THEN freed \cup {h[current].data} ELSE freed
        h1 == IF t # NIL
                THEN IF h[t].nodes[0] = current
                       THEN [h EXCEPT ![t].nodes[0] = NIL]
                       ELSE [h EXCEPT ![t].nodes[1] = NIL]
                ELSE h
    IN  ClearWalk(HeapDelete(h1, current), t, SubSeq(nodeStack, 1, Len(nodeStack) - 1), owns, fr)

\* size_t comparison of currentIndex with index.  currentIndex is kept as the
\* representative nearest zero of its value modulo 2^64: a negative
\* representative is a value near 2^64, above every index.
IndexAbove(currentIndex, index) == currentIndex < 0 \/ currentIndex > index

\* The descent loop of CAVLTree::operator[]: the payload returned, or
\* "undefined" where the loop dereferences a null or a past-the-object pointer.
RECURSIVE IndexWalk(_, _, _, _)
IndexWalk(h, current, currentIndex, index) ==
  IF currentIndex = index THEN [kind |-> "value", data |-> h[current].data]
  ELSE IF IndexAbove(currentIndex, index)
    THEN LET c == h[current].nodes[0]
         IN  IF c = NIL THEN [kind |-> "undefined", data |-> NIL]
             ELSE IndexWalk(h, c,
                    IF h[c].nodes[1] # NIL
                      THEN currentIndex - 1 - h[h[c].nodes[1]].nodesbelow
                      ELSE currentIndex - 1,
                    index)
    ELSE [kind |-> "undefined", data |-> NIL]

\* operator[] with the bounds test index > size().
IndexResultOffByOne(h, root, count, index) ==
  IF index > count THEN [kind |-> "error", data |-> NIL]
  ELSE IF count = 1
    THEN IF root \in DOMAIN h
           THEN [kind |-> "value", data |-> h[root].data]
           ELSE [kind |-> "undefined", data |-> NIL]
  ELSE IF root \notin DOMAIN h THEN [kind |-> "undefined", data |-> NIL]
  ELSE IndexWalk(h, root,
         IF h[root].nodes[1] # NIL
           THEN h[root].nodesbelow - 1 - h[h[root].nodes[1]].nodesbelow
           ELSE h[root].nodesbelow - 1,
         index)

\* CAVLTree::operator[](index) on the tree (h, root) holding count packages.
IndexResult(h, root, count, index) ==
  IF index >= count THEN [kind |-> "error", data |-> NIL]
  ELSE IF count = 1
    THEN IF root \in DOMAIN h
           THEN [kind |-> "value", data |-> h[root].data]
           ELSE [kind |-> "undefined", data |-> NIL]
  ELSE IF root \notin DOMAIN h THEN [kind |-> "undefined", data |-> NIL]
  ELSE IndexWalk(h, root,
         IF h[root].nodes[1] # NIL
           THEN h[root].nodesbelow - 1 - h[h[root].nodes[1]].nodesbelow
           ELSE h[root].nodesbelow - 1,
         index)

\* ------------------------------------------------------------ tree functions

\* The nodes of the subtree at n.
RECURSIVE Subtree(_, _)
Subtree(h, n) ==
  IF n = NIL THEN {} ELSE {n} \cup Subtree(h, h[n].nodes[0]) \cup Subtree(h, h[n].nodes[1])

RECURSIVE Height(_, _)
Height(h, n) ==
  IF n = NIL THEN 0
  ELSE LET a == Height(h, h[n].nodes[0])
           b == Height(h, h[n].nodes[1])
       IN  1 + (IF a > b THEN a ELSE b)

\* The payload pointers of the subtree at n, in order.
RECURSIVE InOrder(_, _)
InOrder(h, n) ==
  IF n = NIL THEN <<>>
  ELSE InOrder(h, h[n].nodes[0]) \o <<h[n].data>> \o InOrder(h, h[n].nodes[1])

\* The payload pointers the tree holds.
Held == IF root_ = WILD THEN {} ELSE {heap[n].data : n \in Subtree(heap, root_)}

\* ------------------------------------------------------------------- actions

\* The container holds a tree (root_ is nullptr or a node) and no call has had
\* undefined behaviour.
Defined == root_ # WILD /\ ~undef

Call(op, arg, ret, data) == [op |-> op, arg |-> arg, ret |-> ret, data |-> data]

\* The parts of the state a specification does not use stay as they are here.
NoScript == script = <<>>
FreshTree == [root |-> NIL, heap |-> <<>>, count |-> 0, ret |-> "none", val |-> 0]
NoTwin == twin = [tree |-> [side \in {"a", "b"} |-> FreshTree], calls |-> 0]
NoTree ==
  /\ root_ = NIL
  /\ allowDuplicates_ = FALSE
  /\ bOwnsPackages = FALSE
  /\ lPackageCount = 0
  /\ heap = <<>>
  /\ deleted = {}
  /\ undef = FALSE
  /\ last = Call("new", NIL, "none", NIL)
  /\ nInsert = 0
  /\ nErase = 0
  /\ steps = 0
NoBuffer ==
  /\ bufferSize = 0
  /\ acceptDataWhenFull = FALSE
  /\ buffer = <<>>
  /\ elementCount = 0
  /\ headIndex = 0
  /\ tailIndex = 0
  /\ pushed = <<>>
  /\ popped = 0
  /\ overrun = FALSE
  /\ cbLast = Call("new", NIL, "none", NIL)
NoVector ==
  /\ data_ = <<>>
  /\ vsLast = Call("new", NIL, "none", NIL)
NoBimap ==
  /\ SVO = TRUE
  /\ lhsMap = <<>>
  /\ rhsMap = <<>>
  /\ valueStorage = <<>>
  /\ bmLast = Call("new", NIL, "none", NIL)
NoThreads ==
  /\ pushPc = "idle"
  /\ pushFull = FALSE
  /\ pushElem = NIL
  /\ popPc = "idle"
  /\ readPc = "idle"
NoHierarchy ==
  /\ II = 0
  /\ inputData = <<>>
  /\ idMap = <<>>
  /\ pidMap = <<>>
  /\ inputProcessed = FALSE
  /\ pcLast = Call("new", NIL, "none", NIL)

\* CAVLTree::CAVLTree(od, ad) after CContainer::CContainer(): root_ is not set.
Init ==
  /\ root_ \in {NIL, WILD}
  /\ allowDuplicates_ \in BOOLEAN
  /\ bOwnsPackages \in BOOLEAN
  /\ lPackageCount = 0
  /\ heap = <<>>
  /\ deleted = {}
  /\ undef = FALSE
  /\ last = Call("new", NIL, "none", NIL)
  /\ nInsert = 0
  /\ nErase = 0
  /\ steps = 0
  /\ NoScript
  /\ NoTwin
  /\ NoBuffer
  /\ NoVector
  /\ NoBimap
  /\ NoHierarchy
  /\ NoThreads

\* CAVLTree::insert(toInsert), allocation succeeding.  A container that owns
\* its packages is handed packages it does not hold yet; an address the
\* container has deleted names a new package once it is handed in again.
Insert(toInsert) ==
  /\ ~undef
  /\ bOwnsPackages => toInsert \notin Held
  /\ \/ /\ root_ = WILD
        /\ undef' = TRUE
        /\ last' = Call("insert", toInsert, "undefined", NIL)
        /\ UNCHANGED <<root_, heap, lPackageCount, deleted, nInsert, steps>>
     \/ /\ root_ # WILD
        /\ steps < MaxSteps
        /\ Cardinality(DOMAIN heap) < MaxNodes
        /\ LET r == TreeInsert(heap, root_, toInsert)
           IN  /\ heap' = r.heap
               /\ root_' = r.root
        /\ lPackageCount' = lPackageCount + 1
        /\ deleted' = deleted \ {toInsert}
        /\ last' = Call("insert", toInsert, "true", NIL)
        /\ nInsert' = nInsert + 1
        /\ steps' = steps + 1
        /\ UNCHANGED undef
  /\ UNCHANGED <<allowDuplicates_, bOwnsPackages, nErase>>
  /\ UNCHANGED <<script, twin, cbVars, vsVars, bmVars, pcVars, mtVars>>

\* CAVLTree::insert(toInsert) when the new-expression for the node fails.
\* operator new reports the failure by throwing std::bad_alloc, which insert
\* does not catch: the call ends in the exception before any assignment.
\* Where the build's operator new yields nullptr instead (the case the test
\* after the second new-expression is written for), the non-empty tree
\* stores nullptr in a link that was nullptr and returns false, and the empty
\* tree stores nullptr in root_ and goes on to incPackageCount(); return true.
InsertNoMem(toInsert) ==
  /\ Defined
  /\ bOwnsPackages => toInsert \notin Held
  /\ \/ /\ last' = Call("insertNoMem", toInsert, "bad_alloc", NIL)
        /\ UNCHANGED <<lPackageCount, nInsert, steps>>
     \/ /\ root_ # NIL
        /\ last' = Call("insertNoMem", toInsert, "false", NIL)
        /\ UNCHANGED <<lPackageCount, nInsert, steps>>
     \/ /\ root_ = NIL
        /\ steps < MaxSteps
        /\ lPackageCount' = lPackageCount + 1
        /\ last' = Call("insertNoMem", toInsert, "true", NIL)
        /\ nInsert' = nInsert + 1
        /\ steps' = steps + 1
  /\ UNCHANGED <<root_, heap, deleted, undef, allowDuplicates_, bOwnsPackages, nErase>>
  /\ UNCHANGED <<script, twin, cbVars, vsVars, bmVars, pcVars, mtVars>>

\* CAVLTree::erase(toRemove), toRemove a live package: the stored object or
\* another one that compares equal.  With no root the search is skipped and
\* control reaches incPackageCount(); return true.
Erase(toRemove) ==
  /\ ~undef
  /\ toRemove \notin deleted
  /\ \/ /\ root_ = WILD
        /\ undef' = TRUE
        /\ last' = Call("erase", toRemove, "undefined", NIL)
        /\ UNCHANGED <<root_, heap, lPackageCount, deleted, nErase, steps>>
     \/ /\ root_ = NIL
        /\ steps < MaxSteps
        /\ lPackageCount' = lPackageCount + 1
        /\ last' = Call("erase", toRemove, "true", NIL)
        /\ nErase' = nErase + 1
        /\ steps' = steps + 1
        /\ UNCHANGED <<root_, heap, deleted, undef>>
     \/ /\ root_ \notin {NIL, WILD}
        /\ ~EraseSearch(heap, root_, toRemove, <<>>, <<>>).found
        /\ last' = Call("erase", toRemove, "false", NIL)
        /\ UNCHANGED <<root_, heap, lPackageCount, deleted, undef, nErase, steps>>
     \/ /\ root_ \notin {NIL, WILD}
        /\ steps < MaxSteps
        /\ LET s == EraseSearch(heap, root_, toRemove, <<>>, <<>>)
           IN  /\ s.found
               /\ LET r == TreeRemove(heap, root_, bOwnsPackages, s.current, s.up, s.upd)
                  IN  /\ heap' = r.heap
                      /\ root_' = r.root
                      /\ deleted' = deleted \cup ({r.freed} \ {NIL})
        /\ lPackageCount' = lPackageCount + 1
        /\ last' = Call("erase", toRemove, "true", NIL)
        /\ nErase' = nErase + 1
        /\ steps' = steps + 1
        /\ UNCHANGED undef
  /\ UNCHANGED <<allowDuplicates_, bOwnsPackages, nInsert>>
  /\ UNCHANGED <<script, twin, cbVars, vsVars, bmVars, pcVars, mtVars>>

\* CAVLTree::operator[](index).  Where the code's behaviour is undefined the
\* call may do anything: not return, or return any pointer.
Index(index) ==
  /\ ~undef
  /\ LET r == IndexResult(heap, root_, lPackageCount, index)
     IN  \/ /\ r.kind = "error"
            /\ last' = Call("index", index, "error", NIL)
            /\ UNCHANGED undef
         \/ /\ r.kind = "value"
            /\ last' = Call("index", index, "value", r.data)
            /\ UNCHANGED undef
         \/ /\ r.kind = "undefined"
            /\ last' = Call("index", index, "undefined", NIL)
            /\ undef' = TRUE
  /\ UNCHANGED <<root_, allowDuplicates_, bOwnsPackages, lPackageCount, heap, deleted,
                 nInsert, nErase, steps>>
  /\ UNCHANGED <<script, twin, cbVars, vsVars, bmVars, pcVars, mtVars>>

\* CAVLTree::clear(): frees the nodes; the package count is not reset.
Clear ==
  /\ ~undef
  /\ \/ /\ root_ = WILD
        /\ undef' = TRUE
        /\ last' = Call("clear", NIL, "undefined", NIL)
        /\ UNCHANGED <<root_, heap, deleted, steps>>
     \/ /\ root_ # WILD
        /\ steps < MaxSteps
        /\ LET r == ClearWalk(heap, root_, <<NIL>>, bOwnsPackages, {})
           IN  /\ heap' = r.heap
               /\ deleted' = deleted \cup r.freed
        /\ root_' = NIL
        /\ last' = Call("clear", NIL, "none", NIL)
        /\ steps' = steps + 1
        /\ UNCHANGED undef
  /\ nInsert' = 0
  /\ nErase' = 0
  /\ UNCHANGED <<allowDuplicates_, bOwnsPackages, lPackageCount>>
  /\ UNCHANGED <<script, twin, cbVars, vsVars, bmVars, pcVars, mtVars>>

Next ==
  \/ \E toInsert \in Addr : Insert(toInsert)
  \/ \E toRemove \in Addr : Erase(toRemove)
  \/ \E index \in 0 .. lPackageCount : Index(index)
  \/ Clear

Spec == Init /\ [][Next]_vars

\* The calls above, and inserts whose allocation fails.
NoMemNext ==
  \/ Next
  \/ \E toInsert \in Addr : InsertNoMem(toInsert)

SpecNoMem == Init /\ [][NoMemNext]_vars

\* ------------------------------------------------------------ scripted runs

\* The payload object of a scripted run that carries the value v.
Obj(v) == MaxAddr + v

\* The insertion order of the 31-element run.
Order31 ==
  <<7, 2, 30, 14, 8, 6, 13, 24, 26, 5, 22, 29, 12, 1, 11, 27, 3, 15, 10, 16,
    18, 23, 17, 21, 28, 20, 9, 4, 25, 31, 19>>

ScriptCall(op, v) == [op |-> op, arg |-> Obj(v)]

\* insert of 1..31 in the order above; insert 5, 3, 8 and then erase 5.
Script31 == [i \in DOMAIN Order31 |-> ScriptCall("insert", Order31[i])]
Script538 ==
  <<ScriptCall("insert", 5), ScriptCall("insert", 3), ScriptCall("insert", 8),
    ScriptCall("erase", 5)>>

ScriptInit ==
  /\ root_ \in {NIL, WILD}
  /\ allowDuplicates_ \in BOOLEAN
  /\ bOwnsPackages \in BOOLEAN
  /\ lPackageCount = 0
  /\ heap = <<>>
  /\ deleted = {}
  /\ undef = FALSE
  /\ last = Call("new", NIL, "none", NIL)
  /\ nInsert = 0
  /\ nErase = 0
  /\ steps = 0
  /\ script \in {Script31, Script538}
  /\ NoTwin
  /\ NoBuffer
  /\ NoVector
  /\ NoBimap
  /\ NoHierarchy
  /\ NoThreads

\* The next call of the script is CAVLTree::insert.
ScriptInsert ==
  /\ ~undef
  /\ script # <<>> /\ Head(script).op = "insert"
  /\ LET toInsert == Head(script).arg
     IN  \/ /\ root_ = WILD
            /\ undef' = TRUE
            /\ last' = Call("insert", toInsert, "undefined", NIL)
            /\ UNCHANGED <<root_, heap, lPackageCount, nInsert>>
         \/ /\ root_ # WILD
            /\ LET r == TreeInsert(heap, root_, toInsert)
               IN  /\ heap' = r.heap
                   /\ root_' = r.root
            /\ lPackageCount' = lPackageCount + 1
            /\ last' = Call("insert", toInsert, "true", NIL)
            /\ nInsert' = nInsert + 1
            /\ UNCHANGED undef
  /\ script' = Tail(script)
  /\ UNCHANGED <<allowDuplicates_, bOwnsPackages, deleted, nErase, steps>>
  /\ UNCHANGED <<twin, cbVars, vsVars, bmVars, pcVars, mtVars>>

\* The next call of the script is CAVLTree::erase; the tree has a root.
ScriptErase ==
  /\ Defined /\ root_ # NIL
  /\ script # <<>> /\ Head(script).op = "erase"
  /\ LET toRemove == Head(script).arg
         s == EraseSearch(heap, root_, toRemove, <<>>, <<>>)
     IN  \/ /\ ~s.found
            /\ last' = Call("erase", toRemove, "false", NIL)
            /\ UNCHANGED <<root_, heap, lPackageCount, deleted, nErase>>
         \/ /\ s.found
            /\ LET r == TreeRemove(heap, root_, bOwnsPackages, s.current, s.up, s.upd)
               IN  /\ heap' = r.heap
                   /\ root_' = r.root
                   /\ deleted' = deleted \cup ({r.freed} \ {NIL})
            /\ lPackageCount' = lPackageCount + 1
            /\ last' = Call("erase", toRemove, "true", NIL)
            /\ nErase' = nErase + 1
  /\ script' = Tail(script)
  /\ UNCHANGED <<allowDuplicates_, bOwnsPackages, undef, nInsert, steps>>
  /\ UNCHANGED <<twin, cbVars, vsVars, bmVars, pcVars, mtVars>>

\* The script is over: CAVLTree::operator[] with an index below size().
ScriptIndex(index) ==
  /\ ~undef
  /\ script = <<>>
  /\ LET r == IndexResult(heap, root_, lPackageCount, index)
     IN  /\ last' = Call("index", index, r.kind, r.data)
         /\ undef' = (r.kind = "undefined")
  /\ UNCHANGED <<root_, allowDuplicates_, bOwnsPackages, lPackageCount, heap, deleted,
                 nInsert, nErase, steps>>
  /\ UNCHANGED <<script, twin, cbVars, vsVars, bmVars, pcVars, mtVars>>

ScriptNext ==
  \/ ScriptInsert
  \/ ScriptErase
  \/ \E index \in 0 .. lPackageCount - 1 : ScriptIndex(index)

SpecScript == ScriptInit /\ [][ScriptNext]_vars

\* ------------------------------------------------------------- grown trees

\* Insertion orders of the values 1 .. MaxGrown: ascending; the level orders
\* of two of the sparsest trees of height 5 on the values 1 .. 12, one whose
\* nodes all lean to child 0 and one whose nodes lean to alternate sides, each
\* with its mirror image; and an order whose inserts rotate below the root,
\* once and twice over.
OrderUp == [i \in 1 .. MaxGrown |-> i]
OrderLean == <<8, 5, 11, 3, 7, 10, 12, 2, 4, 6, 9, 1>>
OrderZig == <<8, 3, 11, 2, 6, 9, 12, 1, 4, 7, 10, 5>>
OrderTurn == <<8, 5, 10, 7, 6, 11, 2, 1, 3, 4, 9, 12>>
Mirror(o) == [i \in DOMAIN o |-> Len(o) + 1 - o[i]]
GrownOrders ==
  {OrderUp, OrderLean, Mirror(OrderLean), OrderZig, Mirror(OrderZig), OrderTurn}

\* The runs: the first k inserts of one of the orders, then at most MaxCut
\* erase calls, each of any of the values.
GrownScripts ==
  {[i \in 1 .. k |-> ScriptCall("insert", o[i])] \o
     [i \in 1 .. c |-> ScriptCall("erase", cut[i])] :
       <<o, k, c, cut>> \in
         {q \in GrownOrders \X (0 .. MaxGrown) \X (0 .. MaxCut) \X
                 [1 .. MaxCut -> 1 .. MaxGrown] :
            /\ q[2] <= Len(q[1])
            /\ \A i \in q[3] + 1 .. MaxCut : q[4][i] = 1}}

GrownInit ==
  /\ root_ \in {NIL, WILD}
  /\ allowDuplicates_ \in BOOLEAN
  /\ bOwnsPackages \in BOOLEAN
  /\ lPackageCount = 0
  /\ heap = <<>>
  /\ deleted = {}
  /\ undef = FALSE
  /\ last = Call("new", NIL, "none", NIL)
  /\ nInsert = 0
  /\ nErase = 0
  /\ steps = 0
  /\ script \in GrownScripts
  /\ NoTwin
  /\ NoBuffer
  /\ NoVector
  /\ NoBimap
  /\ NoHierarchy
  /\ NoThreads

SpecGrown == GrownInit /\ [][ScriptNext]_vars

\* ---------------------------------------------------------------- two trees

\* Two containers that do not own their payloads get the same calls with the
\* same values.  The payload objects handed to tree a are the lowest
\* addresses that carry the values, those handed to tree b the highest.
Sides == {"a", "b"}
Values == {ValOf(p) : p \in Addr}
ObjOf(side, v) ==
  CHOOSE p \in Addr :
    /\ ValOf(p) = v
    /\ \A q \in Addr : ValOf(q) = v => IF side = "a" THEN p <= q ELSE q <= p

\* CAVLTree::insert on the tree t; the allocation succeeds.
TwinInsert(t, toInsert) ==
  LET r == TreeInsert(t.heap, t.root, toInsert)
  IN  [root |-> r.root, heap |-> r.heap, count |-> t.count + 1,
       ret |-> "true", val |-> 0]

\* CAVLTree::erase on the tree t.
TwinErase(t, toRemove) ==
  IF t.root = NIL
    THEN [t EXCEPT !.count = t.count + 1, !.ret = "true", !.val = 0]
  ELSE LET s == EraseSearch(t.heap, t.root, toRemove, <<>>, <<>>)
       IN  IF ~s.found THEN [t EXCEPT !.ret = "false", !.val = 0]
           ELSE LET r == TreeRemove(t.heap, t.root, FALSE, s.current, s.up, s.upd)
                IN  [root |-> r.root, heap |-> r.heap, count |-> t.count + 1,
                     ret |-> "true", val |-> 0]

\* CAVLTree::operator[] on the tree t: the value of the payload returned.
TwinIndex(t, index) ==
  LET r == IndexResult(t.heap, t.root, t.count, index)
  IN  [t EXCEPT !.ret = r.kind,
                !.val = IF r.kind = "value" THEN ValOf(r.data) ELSE 0]

\* Both constructors found root_ reading as nullptr.
PairInit ==
  /\ NoTwin
  /\ NoTree
  /\ NoScript
  /\ NoBuffer
  /\ NoVector
  /\ NoBimap
  /\ NoHierarchy
  /\ NoThreads

PairDefined == \A side \in Sides : twin.tree[side].ret # "undefined"

PairInsert(v) ==
  /\ PairDefined
  /\ twin.calls < MaxSteps
  /\ \A side \in Sides : Cardinality(DOMAIN twin.tree[side].heap) < MaxNodes
  /\ twin' = [tree |-> [side \in Sides |-> TwinInsert(twin.tree[side], ObjOf(side, v))],
              calls |-> twin.calls + 1]
  /\ UNCHANGED <<treeVars, script, cbVars, vsVars, bmVars, pcVars, mtVars>>

PairErase(v) ==
  /\ PairDefined
  /\ twin.calls < MaxSteps
  /\ twin' = [tree |-> [side \in Sides |-> TwinErase(twin.tree[side], ObjOf(side, v))],
              calls |-> twin.calls + 1]
  /\ UNCHANGED <<treeVars, script, cbVars, vsVars, bmVars, pcVars, mtVars>>

PairIndex(index) ==
  /\ PairDefined
  /\ twin' = [twin EXCEPT !.tree = [side \in Sides |-> TwinIndex(twin.tree[side], index)]]
  /\ UNCHANGED <<treeVars, script, cbVars, vsVars, bmVars, pcVars, mtVars>>

PairNext ==
  \/ \E v \in Values : PairInsert(v)
  \/ \E v \in Values : PairErase(v)
  \/ \E index \in 0 .. twin.tree["a"].count : PairIndex(index)

SpecPair == PairInit /\ [][PairNext]_vars

\* ------------------------------------------------------------ circularBuffer

\* Width of std::size_t in bits.
SizeBits == 64

\* A cell of the std::array that no push has written.
JUNK == 0

Elem == 1 .. MaxElem

\* 2^k modulo m, computed without leaving the range 0 .. 2 * m.
RECURSIVE PowTwoMod(_, _)
PowTwoMod(k, m) == IF k = 0 THEN 1 % m ELSE (2 * PowTwoMod(k - 1, m)) % m

\* (x - 1) % m for a std::size_t x: the subtraction wraps modulo 2^SizeBits.
DecMod(x, m) ==
  IF x > 0 THEN (x - 1) % m
  ELSE (PowTwoMod(SizeBits, m) + m - 1) % m

\* index reduced as the code reduces it: index %= size only if index >= size.
Reduce(index, size) == IF index >= size THEN index % size ELSE index

\* size(), capacity(), empty(), full()
size == elementCount
capacity == bufferSize
empty == elementCount = 0
full == elementCount = bufferSize

\* front(): buffer[tailIndex], an access outside the array where tailIndex
\* is not below its size.
FrontResult ==
  IF empty THEN [kind |-> "out_of_range", data |-> NIL]
  ELSE IF tailIndex >= bufferSize THEN [kind |-> "undefined", data |-> NIL]
  ELSE [kind |-> "value", data |-> buffer[tailIndex]]

\* back()
BackResult ==
  IF empty THEN [kind |-> "out_of_range", data |-> NIL]
  ELSE [kind |-> "value", data |-> buffer[DecMod(headIndex, bufferSize)]]

\* operator[](index)
AtResult(index) ==
  IF index > elementCount THEN [kind |-> "error", data |-> NIL]
  ELSE [kind |-> "value", data |-> buffer[Reduce(index + tailIndex, bufferSize)]]

\* circularBuffer::circularBuffer() for each bufferSize and acceptDataWhenFull.
BufferInit ==
  /\ bufferSize \in 1 .. MaxCap
  /\ acceptDataWhenFull \in BOOLEAN
  /\ buffer = [i \in 0 .. bufferSize - 1 |-> JUNK]
  /\ elementCount = 0
  /\ headIndex = 0
  /\ tailIndex = 0
  /\ pushed = <<>>
  /\ popped = 0
  /\ overrun = FALSE
  /\ cbLast = Call("new", NIL, "none", NIL)
  /\ NoTree
  /\ NoScript
  /\ NoTwin
  /\ NoVector
  /\ NoBimap
  /\ NoHierarchy
  /\ NoThreads

\* No call on the buffer has had undefined behaviour.
BufferDefined == cbLast.ret # "undefined"

\* push(value_type const &)
PushCopy(element) ==
  /\ BufferDefined
  /\ Len(pushed) < MaxPush
  /\ IF elementCount >= bufferSize
       THEN IF acceptDataWhenFull
              THEN /\ buffer' = [buffer EXCEPT ![headIndex] = element]
                   /\ tailIndex' = (headIndex + 1) + 1
                   /\ headIndex' = Reduce(headIndex + 1, bufferSize)
                   /\ pushed' = Append(pushed, element)
                   /\ cbLast' = Call("pushCopy", element, "overwritten", NIL)
              ELSE /\ cbLast' = Call("pushCopy", element, "dropped", NIL)
                   /\ UNCHANGED <<buffer, tailIndex, headIndex, pushed>>
       ELSE /\ buffer' = [buffer EXCEPT ![headIndex] = element]
            /\ headIndex' = Reduce(headIndex + 1, bufferSize)
            /\ pushed' = Append(pushed, element)
            /\ cbLast' = Call("pushCopy", element, "stored", NIL)
            /\ UNCHANGED tailIndex
  /\ elementCount' = IF elementCount >= bufferSize THEN elementCount ELSE elementCount + 1
  /\ overrun' = (overrun \/ elementCount >= bufferSize)
  /\ UNCHANGED <<bufferSize, acceptDataWhenFull, popped>>
  /\ UNCHANGED <<treeVars, script, twin, vsVars, bmVars, pcVars, mtVars>>

\* push(value_type &&)
PushMove(element) ==
  /\ BufferDefined
  /\ Len(pushed) < MaxPush
  /\ IF size = capacity
       THEN IF acceptDataWhenFull
              THEN /\ buffer' = [buffer EXCEPT ![headIndex] = element]
                   /\ tailIndex' = headIndex + 1
                   /\ headIndex' = Reduce(headIndex + 1, bufferSize)
                   /\ pushed' = Append(pushed, element)
                   /\ cbLast' = Call("pushMove", element, "overwritten", NIL)
              ELSE /\ cbLast' = Call("pushMove", element, "dropped", NIL)
                   /\ UNCHANGED <<buffer, tailIndex, headIndex, pushed>>
       ELSE /\ buffer' = [buffer EXCEPT ![headIndex] = element]
            /\ headIndex' = Reduce(headIndex + 1, bufferSize)
            /\ pushed' = Append(pushed, element)
            /\ cbLast' = Call("pushMove", element, "stored", NIL)
            /\ UNCHANGED tailIndex
  /\ elementCount' = IF size = capacity THEN elementCount ELSE elementCount + 1
  /\ overrun' = (overrun \/ size = capacity)
  /\ UNCHANGED <<bufferSize, acceptDataWhenFull, popped>>
  /\ UNCHANGED <<treeVars, script, twin, vsVars, bmVars, pcVars, mtVars>>

\* pop()
Pop ==
  /\ BufferDefined
  /\ IF ~empty
       THEN /\ tailIndex' = (tailIndex + 1) % bufferSize
            /\ elementCount' = elementCount - 1
            /\ popped' = popped + 1
            /\ cbLast' = Call("pop", NIL, "popped", NIL)
       ELSE /\ cbLast' = Call("pop", NIL, "empty", NIL)
            /\ UNCHANGED <<tailIndex, elementCount, popped>>
  /\ UNCHANGED <<bufferSize, acceptDataWhenFull, buffer, headIndex, pushed, overrun>>
  /\ UNCHANGED <<treeVars, script, twin, vsVars, bmVars, pcVars, mtVars>>

\* clear()
BufferClear ==
  /\ BufferDefined
  /\ headIndex' = 0
  /\ tailIndex' = 0
  /\ elementCount' = 0
  /\ pushed' = <<>>
  /\ popped' = 0
  /\ overrun' = FALSE
  /\ cbLast' = Call("clear", NIL, "none", NIL)
  /\ UNCHANGED <<bufferSize, acceptDataWhenFull, buffer>>
  /\ UNCHANGED <<treeVars, script, twin, vsVars, bmVars, pcVars, mtVars>>

\* front(), back() and operator[](index)
Front ==
  /\ BufferDefined
  /\ cbLast' = Call("front", NIL, FrontResult.kind, FrontResult.data)
  /\ UNCHANGED <<bufferSize, acceptDataWhenFull, buffer, elementCount, headIndex,
                 tailIndex, pushed, popped, overrun>>
  /\ UNCHANGED <<treeVars, script, twin, vsVars, bmVars, pcVars, mtVars>>

Back ==
  /\ BufferDefined
  /\ cbLast' = Call("back", NIL, BackResult.kind, BackResult.data)
  /\ UNCHANGED <<bufferSize, acceptDataWhenFull, buffer, elementCount, headIndex,
                 tailIndex, pushed, popped, overrun>>
  /\ UNCHANGED <<treeVars, script, twin, vsVars, bmVars, pcVars, mtVars>>

At(index) ==
  /\ BufferDefined
  /\ cbLast' = Call("at", index, AtResult(index).kind, AtResult(index).data)
  /\ UNCHANGED <<bufferSize, acceptDataWhenFull, buffer, elementCount, headIndex,
                 tailIndex, pushed, popped, overrun>>
  /\ UNCHANGED <<treeVars, script, twin, vsVars, bmVars, pcVars, mtVars>>

BufferNext ==
  \/ \E element \in Elem : PushCopy(element)
  \/ \E element \in Elem : PushMove(element)
  \/ Pop
  \/ BufferClear
  \/ Front
  \/ Back
  \/ \E index \in 0 .. bufferSize + 1 : At(index)

SpecBuffer == BufferInit /\ [][BufferNext]_vars

\* ---------------------------------------------------------------- properties

Nodes == Subtree(heap, root_)

SizeOf(h, n) == IF n = NIL THEN 0 ELSE h[n].nodesbelow

Range(s) == {s[i] : i \in DOMAIN s}
BagOfSeq(s) == [x \in Range(s) |-> Cardinality({i \in DOMAIN s : s[i] = x})]

\* The payload pointers of a tree, and the values they carry, with multiplicity.
DataBag(h, root) == BagOfSeq(InOrder(h, root))
ValueBag(h, root) ==
  LET s == InOrder(h, root) IN BagOfSeq([i \in DOMAIN s |-> ValOf(s[i])])

\* A node of the tree carries a payload equal to p.
Stored(h, root, p) == \E n \in Subtree(h, root) : PkgEq(h[n].data, p)

\* C1: after any sequence of calls on a tree that started empty, every node's
\* balance is height(child 1) - height(child 0) and is one of -1, 0, +1.
C1_Balance ==
  Defined =>
    \A n \in Nodes :
      /\ heap[n].balance = Height(heap, heap[n].nodes[1]) - Height(heap, heap[n].nodes[0])
      /\ heap[n].balance \in {-1, 0, 1}

\* C1 witness: an erase has removed the largest payload of a tree built by
\* four inserts and left three nodes under a root with both children.
C1_Witness ==
  /\ Defined
  /\ last.op = "erase" /\ last.ret = "true"
  /\ nInsert = 4 /\ nErase = 1
  /\ Cardinality(Nodes) = 3
  /\ heap[root_].nodes[0] # NIL /\ heap[root_].nodes[1] # NIL
  /\ \A n \in Nodes : PkgLess(heap[n].data, last.arg)

\* C2: every node's subtree-size counter is 1 + the counters of its children.
C2_SubtreeSize ==
  Defined =>
    \A n \in Nodes :
      heap[n].nodesbelow =
        1 + SizeOf(heap, heap[n].nodes[0]) + SizeOf(heap, heap[n].nodes[1])

\* C3: payloads under child 0 are strictly less than the node's payload,
\* payloads under child 1 are greater or equal, and equal only when
\* allowDuplicates_ is set.
C3_Order ==
  Defined =>
    \A n \in Nodes :
      /\ \A m \in Subtree(heap, heap[n].nodes[0]) : PkgLess(heap[m].data, heap[n].data)
      /\ \A m \in Subtree(heap, heap[n].nodes[1]) :
           /\ ~PkgLess(heap[m].data, heap[n].data)
           /\ PkgEq(heap[m].data, heap[n].data) => allowDuplicates_

\* C4: size() is the number of inserts that returned true minus the number of
\* erases that returned true since the last clear.
C4_Size == Defined => lPackageCount = nInsert - nErase

\* C5: operator[](rank) with rank < size() returns the payload at in-order
\* position rank.
C5_Rank ==
  (root_ # WILD /\ last.op = "index" /\ last.arg < lPackageCount
     /\ last.arg < Len(InOrder(heap, root_))) =>
    /\ last.ret = "value"
    /\ last.data = InOrder(heap, root_)[last.arg + 1]

\* C6: operator[](rank) with rank >= size() ends in the out-of-bounds error.
C6_OutOfBounds ==
  (last.op = "index" /\ last.arg >= lPackageCount) => last.ret = "error"

\* C6 witness: operator[] was called on a tree with nodes, with rank size().
C6_Witness ==
  /\ Defined /\ Nodes # {}
  /\ last.op = "index" /\ last.arg = lPackageCount /\ last.ret = "error"

\* C7: erase(value) returns true exactly when a node carries an equal payload;
\* on true the payloads lose one occurrence of value and nothing else, on
\* false no node is removed.
C7_Erase ==
  [][(Defined /\ last'.op = "erase") =>
       /\ (last'.ret = "true") <=> Stored(heap, root_, last'.arg)
       /\ last'.ret = "true" =>
            ValueBag(heap, root_) = ValueBag(heap', root_') (+) SetToBag({ValOf(last'.arg)})
       /\ last'.ret # "true" => Subtree(heap', root_') = Nodes]_vars

\* C8: erase on an empty tree returns false and leaves size() at 0 and the
\* root absent.
C8_EraseEmpty ==
  [][(~undef /\ root_ = NIL /\ lPackageCount = 0 /\ last'.op = "erase") =>
       /\ last'.ret = "false"
       /\ lPackageCount' = 0
       /\ root_' = NIL]_vars

\* C9: erase(v) with no payload equal to v in the tree returns false and leaves
\* the tree as it was, so a second erase(v) does the same.
C9_EraseAbsent ==
  [][(Defined /\ last'.op = "erase" /\ ~Stored(heap, root_, last'.arg)) =>
       /\ last'.ret = "false"
       /\ heap' = heap /\ root_' = root_
       /\ lPackageCount' = lPackageCount]_vars

\* C10: insert(value) on a tree, allocation succeeding, returns true, adds one
\* node carrying value, removes none, and increases size() by 1.
C10_Insert ==
  [][(Defined /\ last'.op = "insert") =>
       /\ last'.ret = "true"
       /\ DataBag(heap', root_') = DataBag(heap, root_) (+) SetToBag({last'.arg})
       /\ Cardinality(Subtree(heap', root_')) = Cardinality(Nodes) + 1
       /\ lPackageCount' = lPackageCount + 1]_vars

\* C10 witness: insert has returned true for a payload equal to one already
\* stored, in a tree built without allowDuplicates.
C10_Witness ==
  /\ Defined /\ ~allowDuplicates_
  /\ last.op = "insert" /\ last.ret = "true"
  /\ \E n, m \in Nodes :
       n # m /\ heap[n].data = last.arg /\ PkgEq(heap[m].data, last.arg)

\* C11: when the node allocation of insert fails, on an empty tree as on a
\* non-empty one, insert returns false and root, nodes and size() are as they
\* were before the call.
C11_NoMem ==
  [][(last'.op = "insertNoMem") =>
       /\ last'.ret = "false"
       /\ root_' = root_
       /\ heap' = heap
       /\ lPackageCount' = lPackageCount]_vars

\* C12: after clear() the root is absent, no node is left and size() is 0, as
\* in a freshly constructed tree.
C12_Clear ==
  (Defined /\ last.op = "clear") =>
    /\ root_ = NIL
    /\ heap = <<>>
    /\ lPackageCount = 0

\* C13: in a container that owns its payloads erase and clear destroy exactly
\* the payloads that no node holds any more, and no payload a node still
\* holds; in a container that does not own them they destroy none.
C13_Payloads ==
  [][(Defined /\ Defined' /\ last'.op \in {"erase", "clear"}) =>
       /\ bOwnsPackages =>
            /\ deleted' \ deleted = Held \ Held'
            /\ Held' \cap deleted' = {}
       /\ ~bOwnsPackages => deleted' = deleted]_vars

\* The sequence s without the entries equal to x.
Without(s, x) == SelectSeq(s, LAMBDA y : y # x)

\* C17: when insert(v) has put v into a tree that held no payload equal to v,
\* the erase(v) that follows returns true and leaves the in-order payload
\* sequence and size() the tree had before the insert.
C17_InsertErase ==
  [][(/\ Defined
      /\ last.op = "insert" /\ last.ret = "true"
      /\ last'.op = "erase" /\ last'.arg = last.arg
      /\ Cardinality({n \in Nodes : PkgEq(heap[n].data, last.arg)}) = 1) =>
       /\ last'.ret = "true"
       /\ InOrder(heap', root_') = Without(InOrder(heap, root_), last.arg)
       /\ lPackageCount' = lPackageCount - 1]_vars

\* C14: after the inserts of 1..31 in the given order operator[](i) returns
\* the payload of value i + 1 for every i in 0..30 and the height of the tree
\* is at most 8.
C14_Order31 ==
  (~undef /\ script = <<>> /\ nInsert = 31) =>
    /\ Height(heap, root_) <= 8
    /\ \A i \in 0 .. 30 :
         LET r == IndexResult(heap, root_, lPackageCount, i)
         IN  r.kind = "value" /\ ValOf(r.data) = i + 1

\* C15: after insert 5, 3, 8 and erase 5 the erase has returned true, the
\* tree holds exactly the payloads of values 3 and 8, size() is 2 and every
\* balance factor is the height difference and within -1..1.
C15_Erase5 ==
  (Defined /\ script = <<>> /\ last.op = "erase") =>
    /\ last.ret = "true"
    /\ InOrder(heap, root_) = <<Obj(3), Obj(8)>>
    /\ lPackageCount = 2
    /\ \A n \in Nodes :
         /\ heap[n].balance = Height(heap, heap[n].nodes[1]) - Height(heap, heap[n].nodes[0])
         /\ heap[n].balance \in {-1, 0, 1}

\* The values of the payloads of the tree t in in-order.
ValuesInOrder(t) ==
  LET s == InOrder(t.heap, t.root) IN [i \in DOMAIN s |-> ValOf(s[i])]

\* C16: two trees given the same calls with equal payload values in objects
\* at different addresses return the same results and hold the same values
\* in the same in-order sequence.
C16_Deterministic ==
  PairDefined =>
    /\ twin.tree["a"].ret = twin.tree["b"].ret
    /\ twin.tree["a"].val = twin.tree["b"].val
    /\ twin.tree["a"].count = twin.tree["b"].count
    /\ ValuesInOrder(twin.tree["a"]) = ValuesInOrder(twin.tree["b"])

\* The elements a FIFO queue holds after the pushes and pops made: the
\* latest n of the elements stored.
Latest(n) == SubSeq(pushed, Len(pushed) - n + 1, Len(pushed))

\* C18: as long as no push has found the buffer full, size() is the number
\* of pushes minus the pops that removed an element, front() is the oldest
\* element not popped, back() the newest and operator[](i) the i-th oldest.
C18_Fifo ==
  ~overrun =>
    /\ size = Len(pushed) - popped
    /\ (cbLast.op = "front" /\ ~empty) =>
         cbLast.ret = "value" /\ cbLast.data = Latest(size)[1]
    /\ (cbLast.op = "back" /\ ~empty) =>
         cbLast.ret = "value" /\ cbLast.data = Latest(size)[size]
    /\ (cbLast.op = "at" /\ cbLast.arg < size) =>
         cbLast.ret = "value" /\ cbLast.data = Latest(size)[cbLast.arg + 1]

\* C19: with acceptDataWhenFull a push of either overload that finds the
\* buffer full leaves size() at capacity() and full() true, and front(),
\* operator[](0) .. operator[](capacity() - 1) and back() give the capacity()
\* most recently pushed elements in push order.
C19_Overwrite ==
  (acceptDataWhenFull /\ cbLast.op \in {"pushCopy", "pushMove"}
     /\ cbLast.ret = "overwritten") =>
    /\ size = capacity
    /\ full
    /\ FrontResult = [kind |-> "value", data |-> Latest(capacity)[1]]
    /\ BackResult = [kind |-> "value", data |-> Latest(capacity)[capacity]]
    /\ \A i \in 0 .. capacity - 1 :
         AtResult(i) = [kind |-> "value", data |-> Latest(capacity)[i + 1]]

\* C20: back() on a non-empty buffer returns the element stored last, for
\* every buffer size.
C20_Back ==
  (cbLast.op = "back" /\ ~empty) =>
    cbLast.ret = "value" /\ cbLast.data = pushed[Len(pushed)]


\* C21: operator[](index) with index >= size() is rejected with an error;
\* in particular index = size() is rejected.
C21_AtBounds ==
  (cbLast.op = "at" /\ cbLast.arg >= size) => cbLast.ret = "error"

\* C30: a newly constructed CAVLTree, whatever ownsData and allowDuplicates
\* are, is empty: its root is absent and size() is 0.
C30_Fresh ==
  last.op = "new" => (root_ = NIL /\ lPackageCount = 0 /\ heap = <<>>)

\* The nodes of the subtree at n, in order.
RECURSIVE NodesInOrder(_, _)
NodesInOrder(h, n) ==
  IF n = NIL THEN <<>>
  ELSE NodesInOrder(h, h[n].nodes[0]) \o <<n>> \o NodesInOrder(h, h[n].nodes[1])

\* C28: when insert is given a value equal to an existing payload, the descent
\* takes direction 1 at the equal node, and the duplicate ends up on that
\* node's child-1 side: after it in the order of the tree.
C28_DuplicateSide ==
  [][(Defined /\ root_ # NIL /\ last'.op = "insert" /\ last'.ret = "true") =>
       LET s == InsertSearch(heap, root_, last'.arg, <<>>, <<>>)
           order == NodesInOrder(heap', root_')
       IN  \A i \in DOMAIN s.nodeStack :
             PkgEq(heap[s.nodeStack[i]].data, last'.arg) =>
               /\ s.dirStack[i] = 1
               /\ \A j, k \in DOMAIN order :
                    (order[j] = s.nodeStack[i] /\ order[k] \notin DOMAIN heap)
                      => j < k]_vars

\* ------------------------------------------------- rotations on their own

\* Every subtree of n nodes at the addresses first .. first + n - 1 (the root
\* is first), with the payload values lo .. lo + n - 1 in order, every
\* _nodesbelow equal to the size of the node's subtree and every balance equal
\* to the difference of the children's heights.
RECURSIVE Shapes(_, _, _)
Shapes(first, lo, n) ==
  IF n = 0 THEN {<<>>}
  ELSE UNION {
         {(first :> [balance |-> Height(r, IF n - 1 - k = 0 THEN NIL ELSE first + 1 + k)
                                   - Height(l, IF k = 0 THEN NIL ELSE first + 1),
                     nodesbelow |-> n,
                     nodes |-> Children(IF k = 0 THEN NIL ELSE first + 1,
                                        IF n - 1 - k = 0 THEN NIL ELSE first + 1 + k),
                     data |-> Obj(lo + k)]) @@ l @@ r :
            l \in Shapes(first + 1, lo, k),
            r \in Shapes(first + 1 + k, lo + k + 1, n - 1 - k)} :
         k \in 0 .. n - 1}

\* A subtree of 1 .. MaxShape nodes stands alone, its root in root_.
RotateInit ==
  /\ \E n \in 1 .. MaxShape :
       /\ heap \in Shapes(1, 1, n)
       /\ lPackageCount = n
  /\ root_ = 1
  /\ allowDuplicates_ = FALSE
  /\ bOwnsPackages = FALSE
  /\ deleted = {}
  /\ undef = FALSE
  /\ last = Call("new", NIL, "none", NIL)
  /\ nInsert = 0
  /\ nErase = 0
  /\ steps = 0
  /\ NoScript
  /\ NoTwin
  /\ NoBuffer
  /\ NoVector
  /\ NoBimap
  /\ NoHierarchy
  /\ NoThreads

\* root_ = root_->rotateSingle(dir); the code calls it only on a node that has
\* a child on the side !dir.
RotateSingle(dir) ==
  /\ steps < MaxSteps
  /\ heap[root_].nodes[Not(dir)] # NIL
  /\ LET r == rotateSingle(heap, root_, dir)
     IN  /\ heap' = r.heap
         /\ root_' = r.ret
  /\ last' = Call("rotateSingle", dir, "node", NIL)
  /\ steps' = steps + 1
  /\ UNCHANGED <<allowDuplicates_, bOwnsPackages, lPackageCount, deleted, undef,
                 nInsert, nErase>>
  /\ UNCHANGED <<script, twin, cbVars, vsVars, bmVars, pcVars, mtVars>>

\* root_ = root_->rotateDouble(dir); the code calls it only on a node whose
\* child on the side !dir has a child on the side dir.
RotateDouble(dir) ==
  /\ steps < MaxSteps
  /\ heap[root_].nodes[Not(dir)] # NIL
  /\ heap[heap[root_].nodes[Not(dir)]].nodes[dir] # NIL
  /\ LET r == rotateDouble(heap, root_, dir)
     IN  /\ heap' = r.heap
         /\ root_' = r.ret
  /\ last' = Call("rotateDouble", dir, "node", NIL)
  /\ steps' = steps + 1
  /\ UNCHANGED <<allowDuplicates_, bOwnsPackages, lPackageCount, deleted, undef,
                 nInsert, nErase>>
  /\ UNCHANGED <<script, twin, cbVars, vsVars, bmVars, pcVars, mtVars>>

RotateNext ==
  \/ \E dir \in {0, 1} : RotateSingle(dir)
  \/ \E dir \in {0, 1} : RotateDouble(dir)

SpecRotate == RotateInit /\ [][RotateNext]_vars

\* Every node of the subtree at n counts its subtree: 1 + size(child 0) +
\* size(child 1).
CountersRight(h, n) ==
  \A m \in Subtree(h, n) :
    h[m].nodesbelow = 1 + SizeOf(h, h[m].nodes[0]) + SizeOf(h, h[m].nodes[1])

\* C29: rotateSingle(dir) and rotateDouble(dir) on a subtree with right
\* counters return a subtree with right counters whose root counter is the
\* old root's; rotateSingle returns the former !dir child and changes no
\* balance factor.
C29_Rotate ==
  [][(last'.op \in {"rotateSingle", "rotateDouble"} /\ CountersRight(heap, root_)) =>
       /\ CountersRight(heap', root_')
       /\ heap'[root_'].nodesbelow = heap[root_].nodesbelow
       /\ last'.op = "rotateSingle" =>
            /\ root_' = heap[root_].nodes[Not(last'.arg)]
            /\ \A n \in DOMAIN heap : heap'[n].balance = heap[n].balance]_vars

\* ------------------------------------------------------------ vector_sorted

\* The element type is an integer type, ordered by std::less: values 1 .. MaxKey.
Key == 1 .. MaxKey

\* Compare comp_ = std::less<T>
comp_(a, b) == a < b

\* std::lower_bound(first, first + len, value, comp_) over the positions of s:
\* the halving loop of the standard library.
RECURSIVE LowerBoundFrom(_, _, _, _)
LowerBoundFrom(s, first, len, value) ==
  IF len <= 0 THEN first
  ELSE LET half == len \div 2
           middle == first + half
       IN  IF comp_(s[middle], value)
             THEN LowerBoundFrom(s, middle + 1, len - half - 1, value)
             ELSE LowerBoundFrom(s, first, half, value)

\* lower_bound(begin(), end(), value, comp_); end() is position Len(s) + 1.
lower_bound(s, value) == LowerBoundFrom(s, 1, Len(s), value)

\* std::vector::insert(pos, value) and std::vector::erase(pos)
VecInsert(s, pos, value) ==
  [i \in 1 .. Len(s) + 1 |-> IF i < pos THEN s[i] ELSE IF i = pos THEN value ELSE s[i - 1]]
VecErase(s, pos) ==
  [i \in 1 .. Len(s) - 1 |-> IF i < pos THEN s[i] ELSE s[i + 1]]

\* insert_sorted without the test value != *i.
insert_sortedAlways(s, value) ==
  LET i == lower_bound(s, value)
  IN  IF i = Len(s) + 1
        THEN [data |-> VecInsert(s, i, value), pos |-> Len(s) + 2, inserted |-> TRUE]
        ELSE [data |-> VecInsert(s, i, value), pos |-> i, inserted |-> TRUE]

\* vector_sorted::insert_sorted(value), both overloads: the new data_, the
\* position of the returned iterator (end()-- yields end() of the grown
\* vector) and the returned bool.
insert_sorted(s, value) ==
  LET i == lower_bound(s, value)
  IN  IF i = Len(s) + 1
        THEN [data |-> VecInsert(s, i, value), pos |-> Len(s) + 2, inserted |-> TRUE]
        ELSE IF value # s[i]
          THEN [data |-> VecInsert(s, i, value), pos |-> i, inserted |-> TRUE]
          ELSE [data |-> s, pos |-> i, inserted |-> FALSE]

\* vector_sorted::find(value)
find(s, value) == lower_bound(s, value)

\* vector_sorted(std::initializer_list) inserts the values one by one.
RECURSIVE InsertAll(_, _)
InsertAll(s, init) ==
  IF init = <<>> THEN s ELSE InsertAll(insert_sorted(s, Head(init)).data, Tail(init))

\* The initializer lists of at most MaxInit values.
InitLists == UNION {[1 .. n -> Key] : n \in 0 .. MaxInit}

\* vector_sorted() and vector_sorted(init)
VectorInit ==
  /\ \E init \in InitLists :
       /\ data_ = InsertAll(<<>>, init)
       /\ vsLast = Call("new", init, "none", NIL)
  /\ NoBimap
  /\ NoHierarchy
  /\ NoThreads
  /\ NoTree
  /\ NoScript
  /\ NoTwin
  /\ NoBuffer

\* No call on the vector has had undefined behaviour.
VectorDefined == vsLast.ret # "undefined"

Bool(b) == IF b THEN "true" ELSE "false"

\* insert(value), emplace(args...) and push_back(value): each is
\* insert_sorted(value); push_back drops the result.
VectorInsert(value) ==
  /\ VectorDefined
  /\ Len(data_) < MaxVec
  /\ LET r == insert_sorted(data_, value)
     IN  /\ data_' = r.data
         /\ vsLast' = Call("insert", value, Bool(r.inserted), r.pos)
  /\ UNCHANGED <<treeVars, script, twin, cbVars, bmVars, pcVars, mtVars>>

VectorEmplace(value) ==
  /\ VectorDefined
  /\ Len(data_) < MaxVec
  /\ LET r == insert_sorted(data_, value)
     IN  /\ data_' = r.data
         /\ vsLast' = Call("emplace", value, Bool(r.inserted), r.pos)
  /\ UNCHANGED <<treeVars, script, twin, cbVars, bmVars, pcVars, mtVars>>

VectorPushBack(value) ==
  /\ VectorDefined
  /\ Len(data_) < MaxVec
  /\ data_' = insert_sorted(data_, value).data
  /\ vsLast' = Call("push_back", value, "void", NIL)
  /\ UNCHANGED <<treeVars, script, twin, cbVars, bmVars, pcVars, mtVars>>

\* erase(key): erase(find(key)).  Where find returns end(), data_.erase(end())
\* is undefined: the call may not return, or the vector's end may have moved
\* back by one element.
VectorEraseKey(key) ==
  /\ VectorDefined
  /\ LET rv == find(data_, key)
     IN  IF rv = Len(data_) + 1
           THEN /\ data_' \in {data_} \cup
                               (IF data_ = <<>> THEN {} ELSE {VecErase(data_, Len(data_))})
                /\ vsLast' = Call("erase", key, "undefined", NIL)
           ELSE /\ data_' = VecErase(data_, rv)
                /\ vsLast' = Call("erase", key, "iterator", rv)
  /\ UNCHANGED <<treeVars, script, twin, cbVars, bmVars, pcVars, mtVars>>

\* erase(pos) for an iterator pos to an element
VectorErasePos(pos) ==
  /\ VectorDefined
  /\ pos \in 1 .. Len(data_)
  /\ data_' = VecErase(data_, pos)
  /\ vsLast' = Call("erasePos", pos, "iterator", pos)
  /\ UNCHANGED <<treeVars, script, twin, cbVars, bmVars, pcVars, mtVars>>

\* pop_back(): data_.pop_back(), undefined on an empty vector.
VectorPopBack ==
  /\ VectorDefined
  /\ IF data_ = <<>>
       THEN /\ vsLast' = Call("pop_back", NIL, "undefined", NIL)
            /\ UNCHANGED data_
       ELSE /\ data_' = VecErase(data_, Len(data_))
            /\ vsLast' = Call("pop_back", NIL, "void", NIL)
  /\ UNCHANGED <<treeVars, script, twin, cbVars, bmVars, pcVars, mtVars>>

\* clear()
VectorClear ==
  /\ VectorDefined
  /\ data_' = <<>>
  /\ vsLast' = Call("clear", NIL, "void", NIL)
  /\ UNCHANGED <<treeVars, script, twin, cbVars, bmVars, pcVars, mtVars>>

\* find(value): the position of the returned iterator, end() being "end".
VectorFind(value) ==
  /\ VectorDefined
  /\ LET rv == find(data_, value)
     IN  vsLast' = IF rv = Len(data_) + 1
                     THEN Call("find", value, "end", NIL)
                     ELSE Call("find", value, "iterator", rv)
  /\ UNCHANGED data_
  /\ UNCHANGED <<treeVars, script, twin, cbVars, bmVars, pcVars, mtVars>>

VectorNext ==
  \/ \E value \in Key : VectorInsert(value)
  \/ \E value \in Key : VectorEmplace(value)
  \/ \E value \in Key : VectorPushBack(value)
  \/ \E key \in Key : VectorEraseKey(key)
  \/ \E pos \in 1 .. MaxVec : VectorErasePos(pos)
  \/ VectorPopBack
  \/ VectorClear
  \/ \E value \in Key : VectorFind(value)

SpecVector == VectorInit /\ [][VectorNext]_vars

\* The elements of s are in strictly ascending order under comp_.
Ascending(s) == \A i \in 1 .. Len(s) - 1 : comp_(s[i], s[i + 1])

\* C22: after any sequence of insert, emplace, push_back, erase, pop_back and
\* clear on a vector built by default or initializer-list construction, the
\* stored elements are in strictly ascending order: sorted, no two equal.
C22_Sorted == VectorDefined => Ascending(data_)

\* C22 witness: a vector of three elements or more has refused a value it
\* already holds.
C22_Witness ==
  /\ VectorDefined
  /\ vsLast.op \in {"insert", "emplace"}
  /\ vsLast.ret = "false"
  /\ Len(data_) >= 3

\* C23: erase(key) removes the element equal to key when one exists (the
\* others kept, size() one less) and erases nothing when none exists.
C23_EraseKey ==
  [][(VectorDefined /\ vsLast'.op = "erase") =>
       /\ vsLast'.ret # "undefined"
       /\ IF vsLast'.arg \in Range(data_)
            THEN /\ Len(data_') = Len(data_) - 1
                 /\ BagOfSeq(data_') (+) SetToBag({vsLast'.arg}) = BagOfSeq(data_)
            ELSE data_' = data_]_vars

\* C24: find(value) returns an iterator to the element equal to value when
\* one is stored and end() for every value that is not stored.
C24_Find ==
  vsLast.op = "find" =>
    IF vsLast.arg \in Range(data_)
      THEN vsLast.ret = "iterator" /\ data_[vsLast.data] = vsLast.arg
      ELSE vsLast.ret = "end"

\* -------------------------------------------------------------------- bimap

\* The keys of either side: LHS_T and RHS_T are integer types.
SideKey == 1 .. MaxSide

\* std::map::emplace(k, v): no effect where the map has the key k.
MapEmplace(m, k, v) ==
  IF k \in DOMAIN m THEN m
  ELSE [x \in DOMAIN m \cup {k} |-> IF x = k THEN v ELSE m[x]]

\* The maps after insert(lk, rk) or emplace(lk, rk) with valueStorage already
\* grown to store: the maps hold the keys themselves where SVO is true, and
\* otherwise a reference to the last pair of valueStorage, here its position.
InsertMaps(svo, lm, rm, store, lk, rk) ==
  IF svo
    THEN [lhsMap |-> MapEmplace(lm, lk, rk), rhsMap |-> MapEmplace(rm, rk, lk)]
    ELSE [lhsMap |-> MapEmplace(lm, lk, Len(store)),
          rhsMap |-> MapEmplace(rm, rk, Len(store))]

\* contains_LHS(lk), contains_RHS(rk), size(), empty()
contains_LHS(lk) == lk \in DOMAIN lhsMap
contains_RHS(rk) == rk \in DOMAIN rhsMap
bimapSize == Cardinality(DOMAIN lhsMap)
bimapEmpty == DOMAIN lhsMap = {}

\* LHS(keyRight) and RHS(keyLeft) on keys the maps have; std::map::at throws
\* std::out_of_range on the others.
LHS(keyRight) ==
  IF SVO THEN rhsMap[keyRight] ELSE valueStorage[rhsMap[keyRight]][1]
RHS(keyLeft) ==
  IF SVO THEN lhsMap[keyLeft] ELSE valueStorage[lhsMap[keyLeft]][2]

\* bimap() for either value of the template parameter SVO
BimapInit ==
  /\ SVO \in BOOLEAN
  /\ lhsMap = <<>>
  /\ rhsMap = <<>>
  /\ valueStorage = <<>>
  /\ bmLast = Call("new", NIL, "none", NIL)
  /\ NoVector
  /\ NoHierarchy
  /\ NoThreads
  /\ NoTree
  /\ NoScript
  /\ NoTwin
  /\ NoBuffer

\* insert(lk, rk), insert(value_type)
BimapInsert(lk, rk) ==
  /\ Len(valueStorage) < MaxStore
  /\ valueStorage' = IF SVO THEN valueStorage ELSE Append(valueStorage, <<lk, rk>>)
  /\ LET r == InsertMaps(SVO, lhsMap, rhsMap, valueStorage', lk, rk)
     IN  /\ lhsMap' = r.lhsMap
         /\ rhsMap' = r.rhsMap
  /\ bmLast' = Call("insert", <<lk, rk>>, "void", NIL)
  /\ UNCHANGED SVO
  /\ UNCHANGED <<treeVars, script, twin, cbVars, vsVars, pcVars, mtVars>>

\* emplace(lk, rk), both overloads
BimapEmplace(lk, rk) ==
  /\ Len(valueStorage) < MaxStore
  /\ valueStorage' = IF SVO THEN valueStorage ELSE Append(valueStorage, <<lk, rk>>)
  /\ LET r == InsertMaps(SVO, lhsMap, rhsMap, valueStorage', lk, rk)
     IN  /\ lhsMap' = r.lhsMap
         /\ rhsMap' = r.rhsMap
  /\ bmLast' = Call("emplace", <<lk, rk>>, "void", NIL)
  /\ UNCHANGED SVO
  /\ UNCHANGED <<treeVars, script, twin, cbVars, vsVars, pcVars, mtVars>>

\* clear()
BimapClear ==
  /\ lhsMap' = <<>>
  /\ rhsMap' = <<>>
  /\ valueStorage' = <<>>
  /\ bmLast' = Call("clear", NIL, "void", NIL)
  /\ UNCHANGED SVO
  /\ UNCHANGED <<treeVars, script, twin, cbVars, vsVars, pcVars, mtVars>>

\* LHS(keyRight)
BimapLHS(keyRight) ==
  /\ bmLast' = IF contains_RHS(keyRight)
                 THEN Call("LHS", keyRight, "value", LHS(keyRight))
                 ELSE Call("LHS", keyRight, "out_of_range", NIL)
  /\ UNCHANGED <<SVO, lhsMap, rhsMap, valueStorage>>
  /\ UNCHANGED <<treeVars, script, twin, cbVars, vsVars, pcVars, mtVars>>

\* RHS(keyLeft)
BimapRHS(keyLeft) ==
  /\ bmLast' = IF contains_LHS(keyLeft)
                 THEN Call("RHS", keyLeft, "value", RHS(keyLeft))
                 ELSE Call("RHS", keyLeft, "out_of_range", NIL)
  /\ UNCHANGED <<SVO, lhsMap, rhsMap, valueStorage>>
  /\ UNCHANGED <<treeVars, script, twin, cbVars, vsVars, pcVars, mtVars>>

BimapNext ==
  \/ \E lk, rk \in SideKey : BimapInsert(lk, rk)
  \/ \E lk, rk \in SideKey : BimapEmplace(lk, rk)
  \/ BimapClear
  \/ \E keyRight \in SideKey : BimapLHS(keyRight)
  \/ \E keyLeft \in SideKey : BimapRHS(keyLeft)

SpecBimap == BimapInit /\ [][BimapNext]_vars

\* The two directions of the bimap are inverse to each other.
OneToOne ==
  /\ \A l \in SideKey :
       contains_LHS(l) => (contains_RHS(RHS(l)) /\ LHS(RHS(l)) = l)
  /\ \A r \in SideKey :
       contains_RHS(r) => (contains_LHS(LHS(r)) /\ RHS(LHS(r)) = r)
  /\ bimapSize = Cardinality(DOMAIN rhsMap)

\* C25: after any sequence of insert and emplace calls the bimap is a 1-1
\* relation, size() counting its pairs, and an insert whose left or right key
\* is already present adds nothing to either direction.
C25_OneToOne ==
  [][(bmLast'.op \in {"insert", "emplace"}) =>
       /\ OneToOne'
       /\ (contains_LHS(bmLast'.arg[1]) \/ contains_RHS(bmLast'.arg[2])) =>
            (DOMAIN lhsMap' = DOMAIN lhsMap /\ DOMAIN rhsMap' = DOMAIN rhsMap)]_vars

\* -------------------------------------------------------------- parentChild

\* The IDs of the input data; 0 and the IDs not used are parent IDs that are
\* no entry's ID.
Id == 1 .. MaxId
ParentId == 0 .. MaxId

\* V::get<N>() on an entry of the input data: an entry is <<get<0>, get<1>>>.
Get(val, N) == val[N + 1]

\* The template parameter PI, the get index other than II.
PI == 1 - II

\* The ID and the parent ID of the entry a reference refers to; a reference
\* is the position of its entry in inputData.
IdOf(ref) == Get(inputData[ref], II)
PidOf(ref) == Get(inputData[ref], PI)

\* child_vector::push_back(std::ref(val)) for Sorted = true: insert_sorted on
\* a vector of references, which V::operator< and V::operator!= compare by
\* the ID of the entries.
PushBackRef(vec, ref) ==
  LET ids == [i \in DOMAIN vec |-> IdOf(vec[i])]
      r == insert_sorted(ids, IdOf(ref))
  IN  IF r.inserted THEN VecInsert(vec, lower_bound(ids, IdOf(ref)), ref) ELSE vec

\* processInput(): the maps after the entries at the positions k .. Len(inputData).
RECURSIVE ProcessFrom(_, _, _)
ProcessFrom(im, pm, k) ==
  IF k > Len(inputData) THEN [idMap |-> im, pidMap |-> pm]
  ELSE LET ID == IdOf(k)
           PID == PidOf(k)
           old == IF PID \in DOMAIN pm THEN pm[PID] ELSE <<>>
       IN  ProcessFrom(MapEmplace(im, ID, k),
                       [x \in DOMAIN pm \cup {PID} |->
                          IF x = PID THEN PushBackRef(old, k) ELSE pm[x]],
                       k + 1)

\* The maps a traversal works on: processInput() runs where the input has not
\* been processed.
Processed ==
  IF inputProcessed THEN [idMap |-> idMap, pidMap |-> pidMap]
  ELSE ProcessFrom(idMap, pidMap, 1)

\* hasChildren(PID)
hasChildren(m, PID) == PID \in DOMAIN m.pidMap /\ m.pidMap[PID] # <<>>

\* stackChildren(PID, stack) for a PID that pidMap has (pidMap.at throws
\* std::out_of_range otherwise): get<0>() of the children is pushed, last
\* child first.  The top of a stack is its last element.
stackChildren(m, PID, stack) ==
  LET vec == m.pidMap[PID]
  IN  stack \o [i \in 1 .. Len(vec) |-> Get(inputData[vec[Len(vec) + 1 - i]], 0)]

StackTop(stack) == stack[Len(stack)]
StackPop(stack) == SubSeq(stack, 1, Len(stack) - 1)

\* More iterations than a loop that ends can make on MaxId entries.
LoopLimit == 4 * MaxId + 4

Result(kind, out) == [kind |-> kind, data |-> out]

\* The while loop of preOrder with fuel iterations left.
RECURSIVE PreOrderLoop(_, _, _, _)
PreOrderLoop(m, stack, out, fuel) ==
  IF stack = <<>> THEN Result("value", out)
  ELSE IF fuel = 0 THEN Result("no_return", out)
  ELSE IF StackTop(stack) \notin DOMAIN m.idMap THEN Result("out_of_range", out)
  ELSE LET out1 == Append(out, m.idMap[StackTop(stack)])
       IN  IF hasChildren(m, StackTop(stack))
             THEN PreOrderLoop(m, stackChildren(m, StackTop(stack), StackPop(stack)), out1, fuel - 1)
             ELSE PreOrderLoop(m, StackPop(stack), out1, fuel - 1)

\* preOrder(PID) on the maps m
preOrder(m, PID) ==
  IF PID \notin DOMAIN m.pidMap THEN Result("error", <<>>)
  ELSE PreOrderLoop(m,
                    IF PID \notin DOMAIN m.idMap
                      THEN stackChildren(m, PID, <<>>) ELSE <<PID>>,
                    <<>>, LoopLimit)

\* The inner while loop of postOrder: entries are emitted while the tops of
\* the two stacks agree.
RECURSIVE PostOrderEmit(_, _, _, _)
PostOrderEmit(m, stack, pStack, out) ==
  IF pStack # <<>> /\ stack # <<>> /\ StackTop(pStack) = StackTop(stack)
    THEN IF StackTop(stack) \notin DOMAIN m.idMap
           THEN [kind |-> "out_of_range", stack |-> stack, pStack |-> pStack, out |-> out]
           ELSE PostOrderEmit(m, StackPop(stack), StackPop(pStack), Append(out, m.idMap[StackTop(stack)]))
    ELSE [kind |-> "value", stack |-> stack, pStack |-> pStack, out |-> out]

\* The while loop of postOrder with fuel iterations left.
RECURSIVE PostOrderLoop(_, _, _, _, _)
PostOrderLoop(m, stack, pStack, out, fuel) ==
  IF stack = <<>> THEN Result("value", out)
  ELSE IF fuel = 0 THEN Result("no_return", out)
  ELSE IF pStack = <<>>
    THEN IF StackTop(stack) \notin DOMAIN m.pidMap THEN Result("out_of_range", out)
         ELSE PostOrderLoop(m, stackChildren(m, StackTop(stack), stack),
                            Append(pStack, StackTop(stack)), out, fuel - 1)
  ELSE IF StackTop(pStack) # StackTop(stack) /\ hasChildren(m, StackTop(stack))
    THEN PostOrderLoop(m, stackChildren(m, StackTop(stack), stack),
                       Append(pStack, StackTop(stack)), out, fuel - 1)
  ELSE IF StackTop(pStack) = StackTop(stack)
    THEN LET e == PostOrderEmit(m, stack, pStack, out)
         IN  IF e.kind # "value" THEN Result(e.kind, e.out)
             ELSE PostOrderLoop(m, e.stack, e.pStack, e.out, fuel - 1)
  ELSE IF StackTop(stack) \notin DOMAIN m.idMap THEN Result("out_of_range", out)
  ELSE PostOrderLoop(m, StackPop(stack), pStack, Append(out, m.idMap[StackTop(stack)]), fuel - 1)

\* postOrder(PID) on the maps m
postOrder(m, PID) ==
  IF PID \notin DOMAIN m.pidMap THEN Result("error", <<>>)
  ELSE PostOrderLoop(m,
                     IF PID \in DOMAIN m.idMap
                       THEN <<PID>> ELSE stackChildren(m, PID, <<>>),
                     <<>>, <<>>, LoopLimit)

\* Following parent IDs from i for k steps leaves the IDs 1 .. n.
RECURSIVE LeavesIds(_, _, _, _)
LeavesIds(par, n, i, k) ==
  IF i \notin 1 .. n THEN TRUE
  ELSE IF k = 0 THEN FALSE
  ELSE LeavesIds(par, n, par[i], k - 1)

\* The acyclic parent functions over the IDs 1 .. n.
Parents(n) ==
  {par \in [1 .. n -> ParentId] : \A i \in 1 .. n : LeavesIds(par, n, i, n)}

\* The orders in which a container holds n entries.
Orders(n) == {p \in [1 .. n -> 1 .. n] : \A i, j \in 1 .. n : p[i] = p[j] => i = j}

\* parentChild(input_type &) over a container of 1 .. MaxId entries with
\* unique IDs and acyclic parents, in any order, for either get index II.
HierarchyInit ==
  /\ II \in {0, 1}
  /\ \E n \in 1 .. MaxId : \E par \in Parents(n) : \E p \in Orders(n) :
       inputData = [k \in 1 .. n |->
                      IF II = 0 THEN <<p[k], par[p[k]]>> ELSE <<par[p[k]], p[k]>>]
  /\ idMap = <<>>
  /\ pidMap = <<>>
  /\ inputProcessed = FALSE
  /\ pcLast = Call("new", NIL, "none", NIL)
  /\ NoVector
  /\ NoBimap
  /\ NoTree
  /\ NoScript
  /\ NoTwin
  /\ NoBuffer
  /\ NoThreads

\* The IDs of the entries a sequence of references refers to.
Ids(out) == [i \in DOMAIN out |-> IdOf(out[i])]

\* preOrder<O>(PID)
PreOrder(PID) ==
  /\ LET m == Processed
         r == preOrder(m, PID)
     IN  /\ idMap' = m.idMap
         /\ pidMap' = m.pidMap
         /\ pcLast' = Call("preOrder", PID, r.kind, Ids(r.data))
  /\ inputProcessed' = TRUE
  /\ UNCHANGED <<II, inputData>>
  /\ UNCHANGED <<treeVars, script, twin, cbVars, vsVars, bmVars, mtVars>>

\* postOrder<O>(PID)
PostOrder(PID) ==
  /\ LET m == Processed
         r == postOrder(m, PID)
     IN  /\ idMap' = m.idMap
         /\ pidMap' = m.pidMap
         /\ pcLast' = Call("postOrder", PID, r.kind, Ids(r.data))
  /\ inputProcessed' = TRUE
  /\ UNCHANGED <<II, inputData>>
  /\ UNCHANGED <<treeVars, script, twin, cbVars, vsVars, bmVars, mtVars>>

\* clear()
HierarchyClear ==
  /\ idMap' = <<>>
  /\ pidMap' = <<>>
  /\ inputProcessed' = FALSE
  /\ pcLast' = Call("clear", NIL, "void", NIL)
  /\ UNCHANGED <<II, inputData>>
  /\ UNCHANGED <<treeVars, script, twin, cbVars, vsVars, bmVars, mtVars>>

HierarchyNext ==
  \/ \E PID \in ParentId : PreOrder(PID)
  \/ \E PID \in ParentId : PostOrder(PID)
  \/ HierarchyClear

SpecHierarchy == HierarchyInit /\ [][HierarchyNext]_vars

\* The IDs of the entries whose parent ID is p, and whether p is an ID.
ChildIds(p) == {IdOf(k) : k \in {j \in DOMAIN inputData : PidOf(j) = p}}
IsId(p) == \E k \in DOMAIN inputData : IdOf(k) = p

\* The elements of a set of numbers in ascending order.
RECURSIVE Ascend(_)
Ascend(S) ==
  IF S = {} THEN <<>>
  ELSE LET x == CHOOSE x \in S : \A y \in S : x <= y
       IN  <<x>> \o Ascend(S \ {x})

\* The hierarchy below the IDs ids, siblings ascending: each node before its
\* descendants (pre-order) and each node after them (post-order).
RECURSIVE PreOrderOf(_)
RECURSIVE PreOrderAll(_)
PreOrderOf(id) == <<id>> \o PreOrderAll(Ascend(ChildIds(id)))
PreOrderAll(ids) ==
  IF ids = <<>> THEN <<>> ELSE PreOrderOf(Head(ids)) \o PreOrderAll(Tail(ids))

RECURSIVE PostOrderOf(_)
RECURSIVE PostOrderAll(_)
PostOrderOf(id) == PostOrderAll(Ascend(ChildIds(id))) \o <<id>>
PostOrderAll(ids) ==
  IF ids = <<>> THEN <<>> ELSE PostOrderOf(Head(ids)) \o PostOrderAll(Tail(ids))

\* C26: preOrder(PID) on acyclic data returns every descendant of PID exactly
\* once, preceded by PID's own entry when PID is an ID, each node before its
\* descendants, each subtree contiguous, siblings in ascending ID order.
\* Stated for the PIDs that are the parent ID of an entry, the ones preOrder
\* accepts.
C26_PreOrder ==
  (pcLast.op = "preOrder" /\ ChildIds(pcLast.arg) # {}) =>
    /\ pcLast.ret = "value"
    /\ pcLast.data = IF IsId(pcLast.arg)
                       THEN PreOrderOf(pcLast.arg)
                       ELSE PreOrderAll(Ascend(ChildIds(pcLast.arg)))

\* C27: postOrder(PID), for acyclic data and a PID with at least one child,
\* completes without error and returns every descendant of PID exactly once,
\* each node after its descendants, siblings in ascending ID order.
C27_PostOrder ==
  (pcLast.op = "postOrder" /\ ChildIds(pcLast.arg) # {}) =>
    /\ pcLast.ret = "value"
    /\ SelectSeq(pcLast.data, LAMBDA x : x # pcLast.arg)
         = PostOrderAll(Ascend(ChildIds(pcLast.arg)))


\* The path CAVLTree::erase records for toRemove on the tree (h, root) where
\* the search finds a node: the stacks up and upd as they stand when the walk
\* back begins, the node found and the node unlinked.
ErasePath(h, root, toRemove) ==
  LET s == EraseSearch(h, root, toRemove, <<>>, <<>>)
  IN  IF h[s.current].nodes[0] = NIL \/ h[s.current].nodes[1] = NIL
        THEN [up |-> s.up, upd |-> s.upd, found |-> s.current, gone |-> s.current]
        ELSE LET t == HeirSearch(h, h[s.current].nodes[1],
                                 Append(s.up, s.current), Append(s.upd, 1))
             IN  [up |-> t.up, upd |-> t.upd, found |-> s.current, gone |-> t.heir]

\* erase has just removed a node of a tree.
Erased ==
  /\ Defined /\ root_ # NIL
  /\ last'.op = "erase" /\ last'.ret = "true"

\* C31: a successful erase decreases by exactly 1 the subtree-size counter of
\* every node that remains on the recorded path from the root to the removed
\* node's position, and leaves the counters of the nodes off that path
\* unchanged.
C31_EraseCounters ==
  [][Erased =>
       LET p == ErasePath(heap, root_, last'.arg)
       IN  \A n \in DOMAIN heap' :
             heap'[n].nodesbelow =
               heap[n].nodesbelow - (IF n \in Range(p.up) THEN 1 ELSE 0)]_vars


\* C32: when erase removes a node with two children, the recorded path runs
\* from the root through the found node (direction 1) and down the left links
\* of its child 1 to the parent of the in-order successor, which is the top of
\* the path and so the first node the walk back adjusts (the found node itself
\* when the successor is its child 1); the successor's node is the one freed,
\* its payload moves to the found node, and the walk back up that path leaves
\* every balance equal to the height difference of the node's subtrees.
C32_HeirPath ==
  [][Erased =>
       LET p == ErasePath(heap, root_, last'.arg)
           top == Len(p.up)
           right == heap[p.found].nodes[1]
       IN  (heap[p.found].nodes[0] # NIL /\ right # NIL) =>
             /\ NodesInOrder(heap, right)[1] = p.gone
             /\ p.up[1] = root_
             /\ \A i \in 1 .. top - 1 : heap[p.up[i]].nodes[p.upd[i]] = p.up[i + 1]
             /\ heap[p.up[top]].nodes[p.upd[top]] = p.gone
             /\ \E k \in 1 .. top :
                  /\ p.up[k] = p.found /\ p.upd[k] = 1
                  /\ \A i \in k + 1 .. top : p.upd[i] = 0
             /\ (right = p.gone) = (p.up[top] = p.found)
             /\ Subtree(heap', root_') = Nodes \ {p.gone}
             /\ DOMAIN heap' = DOMAIN heap \ {p.gone}
             /\ heap'[p.found].data = heap[p.gone].data
             /\ \A n \in Subtree(heap', root_') :
                  heap'[n].balance =
                    Height(heap', heap'[n].nodes[1]) - Height(heap', heap'[n].nodes[0])]_vars

\* C32 witness: in a container that owns its payloads, an erase has removed one
\* of three nodes and deleted no payload: the node found was the root with its
\* two children, for the removal of a node with an empty link deletes the
\* payload it carried.
C32_Witness ==
  /\ Defined /\ bOwnsPackages
  /\ last.op = "erase" /\ last.ret = "true"
  /\ nInsert = 3 /\ nErase = 1
  /\ Cardinality(Nodes) = 2
  /\ deleted = {}

\* The walk back of erase along the path (up, upd) of the tree h, told from
\* the tree as it stood before the call.  Adjusted is the balance of the
\* node at position i of the path after the adjustment for a subtree that got
\* shorter on side upd[i]; Taller is its child on the other side; WalkOn says
\* that the walk goes on above position i, and Reached that it gets to
\* position i.
Adjusted(h, up, upd, i) == h[up[i]].balance + (IF upd[i] # 0 THEN -1 ELSE 1)
Taller(h, up, upd, i) == h[up[i]].nodes[Not(upd[i])]
WalkOn(h, up, upd, i) ==
  \/ Adjusted(h, up, upd, i) = 0
  \/ /\ Abs(Adjusted(h, up, upd, i)) = 2
     /\ h[Taller(h, up, upd, i)].balance # 0
Reached(h, up, upd, i) == \A j \in i + 1 .. Len(up) : WalkOn(h, up, upd, j)

\* The root of the subtree rotated at position i: the taller child, or for a
\* double rotation that child's child on the side that got shorter.
Rotated(h, up, upd, i) ==
  LET t == Taller(h, up, upd, i)
  IN  IF h[t].balance * Adjusted(h, up, upd, i) < 0 THEN h[t].nodes[upd[i]] ELSE t

\* C35: in the walk back of erase the bottom of the path is adjusted; the walk
\* gets to the node above an adjusted node when the adjusted balance is 0, or
\* is 2 or -2 and the taller child had a balance other than 0.  Every node the
\* walk gets to has its balance adjusted by one; when that makes it -1, 0 or 1
\* the node stays where it is, and when it makes it 2 or -2 the rotated
\* subtree's root takes its place under the node above it on the path, or as
\* root.  A node the walk does not get to keeps its balance and its place.
C35_EraseWalk ==
  [][Erased =>
       LET p == ErasePath(heap, root_, last'.arg)
       IN  \A i \in 1 .. Len(p.up) :
             LET n == p.up[i]
                 b == Adjusted(heap, p.up, p.upd, i)
                 place == IF i = 1 THEN root_' ELSE heap'[p.up[i - 1]].nodes[p.upd[i - 1]]
             IN  IF Reached(heap, p.up, p.upd, i)
                   THEN IF Abs(b) <= 1
                          THEN heap'[n].balance = b /\ place = n
                          ELSE place = Rotated(heap, p.up, p.upd, i) /\ place # n
                   ELSE heap'[n].balance = heap[n].balance /\ place = n]_vars

\* C35 witness: the run that inserted OrderLean and erased its largest value
\* is over.  The walk back rotated at the parent of the node removed, whose
\* place under the root the rotated subtree's root 10 took, went on to the
\* root 8 and rotated there, so that 5 is the root with 8 as its child 1.
C35_Witness ==
  /\ Defined /\ script = <<>>
  /\ last.op = "erase" /\ last.ret = "true" /\ last.arg = Obj(Len(OrderLean))
  /\ nInsert = Len(OrderLean) /\ nErase = 1
  /\ \A n \in Nodes : heap[n].data = Obj(OrderLean[n])
  /\ heap[root_].data = Obj(5)
  /\ heap[heap[root_].nodes[1]].data = Obj(8)
  /\ heap[heap[heap[root_].nodes[1]].nodes[1]].data = Obj(10)

\* insert has just added a node to a tree that had a root.
Inserted ==
  /\ Defined /\ root_ # NIL
  /\ last'.op = "insert" /\ last'.ret = "true"

\* The walk back of insert along the path (nodeStack, dirStack) of the tree h,
\* told from the tree as it stood before the call.  Raised is the balance of
\* the node at position i of the path after the adjustment for a subtree that
\* got taller on side dirStack[i]; ReachedUp says that the walk gets to
\* position i: every adjusted balance below is 1 or -1.
Raised(h, nodeStack, dirStack, i) ==
  h[nodeStack[i]].balance + (IF dirStack[i] = 0 THEN -1 ELSE 1)
ReachedUp(h, nodeStack, dirStack, i) ==
  \A j \in i + 1 .. Len(nodeStack) : Abs(Raised(h, nodeStack, dirStack, j)) = 1

\* The root of the subtree insertBalance rotates at position i: the next node
\* of the path when the path goes on to the same side (single rotation), the
\* node after that, which is the new node when the path ends there (double
\* rotation).
RotatedUp(h, nodeStack, dirStack, i) ==
  IF dirStack[i + 1] = dirStack[i] THEN nodeStack[i + 1]
  ELSE IF i + 2 <= Len(nodeStack) THEN nodeStack[i + 2]
  ELSE Alloc(h)

\* C36: the walk back of insert adjusts the bottom of the path and gets to the
\* node above an adjusted node only when the adjusted balance is 1 or -1.  A
\* node it gets to with the adjusted balance 0 keeps its place and the height
\* of its subtree; one with the adjusted balance 2 or -2 is replaced under the
\* node above it (or as root) by the root of the rotated subtree, which has
\* the height the subtree had before the insert.  A node with the adjusted
\* balance 1 or -1 keeps that balance and its place unless it is one of the
\* two path nodes under the rotated node.  Every node above the one where the
\* walk stops keeps its balance, its place, and its other child: there is no
\* second rotation.
C36_InsertWalk ==
  [][Inserted =>
       LET s == InsertSearch(heap, root_, last'.arg, <<>>, <<>>)
           ns == s.nodeStack
           ds == s.dirStack
           place(i) == IF i = 1 THEN root_' ELSE heap'[ns[i - 1]].nodes[ds[i - 1]]
           turned(i) == ReachedUp(heap, ns, ds, i) /\ Abs(Raised(heap, ns, ds, i)) = 2
       IN  \A i \in 1 .. Len(ns) :
             LET n == ns[i]
                 b == Raised(heap, ns, ds, i)
             IN  IF ReachedUp(heap, ns, ds, i)
                   THEN IF Abs(b) = 1
                          THEN (\A j \in {i - 1, i - 2} : j >= 1 => ~turned(j)) =>
                                 heap'[n].balance = b /\ place(i) = n
                        ELSE IF b = 0
                          THEN /\ heap'[n].balance = 0 /\ place(i) = n
                               /\ Height(heap', n) = Height(heap, n)
                          ELSE /\ place(i) = RotatedUp(heap, ns, ds, i)
                               /\ place(i) # n
                               /\ Height(heap', place(i)) = Height(heap, n)
                   ELSE /\ heap'[n].balance = heap[n].balance
                        /\ place(i) = n
                        /\ heap'[n].nodes[Not(ds[i])] = heap[n].nodes[Not(ds[i])]]_vars

\* C36 witness: the run that inserts 1, 2, 3, ... has inserted 5.  The walk
\* back rotated at the node of 3, below the root 2, and the node of 4 took its
\* place as child 1 of the root, with 3 and 5 as its children.
C36_Witness ==
  /\ Defined
  /\ last.op = "insert" /\ last.ret = "true" /\ last.arg = Obj(5)
  /\ nInsert = 5 /\ nErase = 0
  /\ \A n \in Nodes : heap[n].data = Obj(OrderUp[n])
  /\ heap[root_].data = Obj(2)
  /\ LET n == heap[root_].nodes[1]
     IN  /\ heap[n].data = Obj(4)
         /\ heap[heap[n].nodes[0]].data = Obj(3)
         /\ heap[heap[n].nodes[1]].data = Obj(5)

\* C37: operator[](rank) with rank below size() and below the number of nodes,
\* on a tree built by inserts and erases, returns: it follows no absent child
\* link and reads through no pointer that is not a node of the tree, and it
\* leaves the tree as it was.
C37_IndexReturns ==
  [][(Defined /\ last'.op = "index" /\ last'.arg < lPackageCount
        /\ last'.arg < Cardinality(Nodes)) =>
       /\ last'.ret = "value"
       /\ ~undef'
       /\ heap' = heap /\ root_' = root_]_vars

\* The loop of CAVLTree::clear from node current with the stack nodeStack, as
\* the sequence of its delete-expressions: each entry names the node deleted
\* and the payload object deleted just before it (NIL when none is).
RECURSIVE ClearTraceSkip(_, _, _, _, _)
RECURSIVE ClearTrace(_, _, _, _, _)

\* The loop that takes a node with no child 0 for a leaf.
ClearTraceSkip(h, current, nodeStack, owns, order) ==
  IF current = NIL THEN order
  ELSE IF h[current].nodes[0] # NIL
    THEN ClearTraceSkip(h, h[current].nodes[0], Append(nodeStack, current), owns, order)
  ELSE
    LET t == nodeStack[Len(nodeStack)]
        del == IF owns /\ h[current].data # NIL THEN h[current].data ELSE NIL
        h1 == IF t # NIL
                THEN IF h[t].nodes[0] = current
                       THEN [h EXCEPT ![t].nodes[0] = NIL]
                       ELSE [h EXCEPT ![t].nodes[1] = NIL]
                ELSE h
    IN  ClearTraceSkip(HeapDelete(h1, current), t,
                       SubSeq(nodeStack, 1, Len(nodeStack) - 1), owns,
                       Append(order, [node |-> current, data |-> del]))

ClearTrace(h, current, nodeStack, owns, order) ==
  IF current = NIL THEN order
  ELSE IF h[current].nodes[0] # NIL
    THEN ClearTrace(h, h[current].nodes[0], Append(nodeStack, current), owns, order)
  ELSE IF h[current].nodes[1] # NIL
    THEN ClearTrace(h, h[current].nodes[1], Append(nodeStack, current), owns, order)
  ELSE
    LET t == nodeStack[Len(nodeStack)]
        del == IF owns /\ h[current].data # NIL THEN h[current].data ELSE NIL
        h1 == IF t # NIL
                THEN IF h[t].nodes[0] = current
                       THEN [h EXCEPT ![t].nodes[0] = NIL]
                       ELSE [h EXCEPT ![t].nodes[1] = NIL]
                ELSE h
    IN  ClearTrace(HeapDelete(h1, current), t,
                   SubSeq(nodeStack, 1, Len(nodeStack) - 1), owns,
                   Append(order, [node |-> current, data |-> del]))

\* C38: clear on a tree comes to an end having deleted every node of the tree
\* once, each after the nodes that were its children; a container that owns
\* its payloads deletes with each node the payload it holds, every held
\* payload once, and one that does not own them deletes none.  No node is left
\* and the root is absent.
C38_ClearOrder ==
  [][(Defined /\ last'.op = "clear") =>
       LET tr == ClearTrace(heap, root_, <<NIL>>, bOwnsPackages, <<>>)
       IN  /\ {tr[i].node : i \in DOMAIN tr} = Nodes
           /\ \A i, j \in DOMAIN tr :
                /\ (tr[i].node = tr[j].node) => i = j
                /\ (bOwnsPackages /\ tr[i].data = tr[j].data) => i = j
                /\ (tr[j].node \in Range(heap[tr[i].node].nodes)) => j < i
           /\ \A i \in DOMAIN tr :
                tr[i].data = IF bOwnsPackages THEN heap[tr[i].node].data ELSE NIL
           /\ deleted' = deleted \cup ({tr[i].data : i \in DOMAIN tr} \ {NIL})
           /\ Nodes \cap DOMAIN heap' = {}
           /\ root_' = NIL]_vars

\* C38 witness: clear has ended on an owning container that held all the
\* payload objects in three nodes, a root with its two children: the three
\* calls counted by size() were its inserts, and every payload is deleted.
C38_Witness ==
  /\ Defined /\ bOwnsPackages
  /\ last.op = "clear"
  /\ steps = 4 /\ lPackageCount = 3
  /\ deleted = Addr
  /\ heap = <<>> /\ root_ = NIL

\* C34: after any sequence of push, pop and clear, with either setting of
\* acceptDataWhenFull, elementCount is at most the capacity, headIndex and
\* tailIndex are below it, and headIndex is (tailIndex + elementCount) modulo
\* the capacity, so that no access reads outside the storage array.
C34_Indices ==
  BufferDefined =>
    /\ elementCount <= capacity
    /\ headIndex < capacity
    /\ tailIndex < capacity
    /\ headIndex = (tailIndex + elementCount) % capacity

\* ---------------------------------------------- circularBuffer, MTA = true
\* One thread calls push(value_type &&), one calls pop() and one calls size(),
\* front() and back() on the same buffer.  A step is what a call does while it
\* holds mBuffer (a shared_lock for the tests and reads, a unique_lock for
\* the updates), or what it does between two locks.

\* push: the test size() == capacity(), under the shared_lock of size().
ThreadPushTest(element) ==
  /\ BufferDefined
  /\ pushPc = "idle"
  /\ Len(pushed) < MaxPush
  /\ pushPc' = "tested"
  /\ pushFull' = (size = capacity)
  /\ pushElem' = element
  /\ UNCHANGED <<cbVars, popPc, readPc>>
  /\ UNCHANGED <<treeVars, script, twin, vsVars, bmVars, pcVars>>

\* push: the branch chosen by the test, under its unique_lock.
ThreadPushStore ==
  /\ BufferDefined
  /\ pushPc = "tested"
  /\ IF pushFull /\ ~acceptDataWhenFull
       THEN UNCHANGED <<buffer, headIndex, tailIndex, elementCount, pushed, cbLast>>
     ELSE IF headIndex >= bufferSize
       THEN /\ cbLast' = Call("pushMove", pushElem, "undefined", NIL)
            /\ UNCHANGED <<buffer, headIndex, tailIndex, elementCount, pushed>>
       ELSE /\ buffer' = [buffer EXCEPT ![headIndex] = pushElem]
            /\ headIndex' = headIndex + 1
            /\ tailIndex' = IF pushFull THEN headIndex + 1 ELSE tailIndex
            /\ elementCount' = IF pushFull THEN elementCount ELSE elementCount + 1
            /\ pushed' = Append(pushed, pushElem)
            /\ UNCHANGED cbLast
  /\ overrun' = (overrun \/ pushFull)
  /\ pushPc' = "wrap"
  /\ UNCHANGED <<bufferSize, acceptDataWhenFull, popped, pushFull, pushElem, popPc, readPc>>
  /\ UNCHANGED <<treeVars, script, twin, vsVars, bmVars, pcVars>>

\* push: the reduction of headIndex after the locks are released.
ThreadPushWrap ==
  /\ BufferDefined
  /\ pushPc = "wrap"
  /\ headIndex' = Reduce(headIndex, bufferSize)
  /\ cbLast' = Call("pushMove", pushElem,
                    IF ~pushFull THEN "stored"
                    ELSE IF acceptDataWhenFull THEN "overwritten" ELSE "dropped",
                    NIL)
  /\ pushPc' = "idle"
  /\ pushFull' = FALSE
  /\ pushElem' = NIL
  /\ UNCHANGED <<bufferSize, acceptDataWhenFull, buffer, elementCount, tailIndex,
                 pushed, popped, overrun, popPc, readPc>>
  /\ UNCHANGED <<treeVars, script, twin, vsVars, bmVars, pcVars>>

\* pop: the test !empty(), under the shared_lock of empty().
ThreadPopTest ==
  /\ BufferDefined
  /\ popPc = "idle"
  /\ IF ~empty
       THEN popPc' = "tested" /\ UNCHANGED cbLast
       ELSE cbLast' = Call("pop", NIL, "empty", NIL) /\ UNCHANGED popPc
  /\ UNCHANGED <<bufferSize, acceptDataWhenFull, buffer, elementCount, headIndex,
                 tailIndex, pushed, popped, overrun, pushPc, pushFull, pushElem, readPc>>
  /\ UNCHANGED <<treeVars, script, twin, vsVars, bmVars, pcVars>>

\* pop: the update under its unique_lock.  Only this thread lowers
\* elementCount, which the test found above 0.
ThreadPopTake ==
  /\ BufferDefined
  /\ popPc = "tested"
  /\ tailIndex' = (tailIndex + 1) % bufferSize
  /\ elementCount' = elementCount - 1
  /\ popped' = popped + 1
  /\ cbLast' = Call("pop", NIL, "popped", NIL)
  /\ popPc' = "idle"
  /\ UNCHANGED <<bufferSize, acceptDataWhenFull, buffer, headIndex, pushed, overrun,
                 pushPc, pushFull, pushElem, readPc>>
  /\ UNCHANGED <<treeVars, script, twin, vsVars, bmVars, pcVars>>

\* size(), under its shared_lock.
ThreadSize ==
  /\ BufferDefined
  /\ readPc = "idle"
  /\ cbLast' = Call("size", NIL, "value", elementCount)
  /\ UNCHANGED <<bufferSize, acceptDataWhenFull, buffer, elementCount, headIndex,
                 tailIndex, pushed, popped, overrun, mtVars>>
  /\ UNCHANGED <<treeVars, script, twin, vsVars, bmVars, pcVars>>

\* front() or back(): the test !empty(), under the shared_lock of empty().
ThreadReadTest(call) ==
  /\ BufferDefined
  /\ readPc = "idle"
  /\ IF ~empty
       THEN readPc' = call /\ UNCHANGED cbLast
       ELSE cbLast' = Call(call, NIL, "out_of_range", NIL) /\ UNCHANGED readPc
  /\ UNCHANGED <<bufferSize, acceptDataWhenFull, buffer, elementCount, headIndex,
                 tailIndex, pushed, popped, overrun, pushPc, pushFull, pushElem, popPc>>
  /\ UNCHANGED <<treeVars, script, twin, vsVars, bmVars, pcVars>>

\* front(): the read of buffer[tailIndex] under its shared_lock.
ThreadFrontRead ==
  /\ BufferDefined
  /\ readPc = "front"
  /\ cbLast' = IF tailIndex >= bufferSize
                 THEN Call("front", NIL, "undefined", NIL)
                 ELSE Call("front", NIL, "value", buffer[tailIndex])
  /\ readPc' = "idle"
  /\ UNCHANGED <<bufferSize, acceptDataWhenFull, buffer, elementCount, headIndex,
                 tailIndex, pushed, popped, overrun, pushPc, pushFull, pushElem, popPc>>
  /\ UNCHANGED <<treeVars, script, twin, vsVars, bmVars, pcVars>>

\* back(): the read of headIndex and of the cell before it under its
\* shared_lock.  While push is about to write headIndex with no lock held,
\* the read races with that write and the behaviour is undefined.
ThreadBackRead ==
  /\ BufferDefined
  /\ readPc = "back"
  /\ \/ cbLast' = Call("back", NIL, "value", buffer[DecMod(headIndex, bufferSize)])
     \/ /\ pushPc = "wrap" /\ headIndex >= bufferSize
        /\ cbLast' = Call("back", NIL, "undefined", NIL)
  /\ readPc' = "idle"
  /\ UNCHANGED <<bufferSize, acceptDataWhenFull, buffer, elementCount, headIndex,
                 tailIndex, pushed, popped, overrun, pushPc, pushFull, pushElem, popPc>>
  /\ UNCHANGED <<treeVars, script, twin, vsVars, bmVars, pcVars>>

ThreadNext ==
  \/ \E element \in Elem : ThreadPushTest(element)
  \/ ThreadPushStore
  \/ ThreadPushWrap
  \/ ThreadPopTest
  \/ ThreadPopTake
  \/ ThreadSize
  \/ \E call \in {"front", "back"} : ThreadReadTest(call)
  \/ ThreadFrontRead
  \/ ThreadBackRead

SpecThreads == BufferInit /\ [][ThreadNext]_vars

\* C33: with MTA = true, a thread pushing, a thread popping and a thread
\* reading leave the buffer, whenever no push and no pop is under way, with
\* elementCount at most the capacity and headIndex equal to (tailIndex +
\* elementCount) modulo the capacity; and when push or pop comes to the update
\* its test guards, the test still has the value it had.
C33_Interleaving ==
  BufferDefined =>
    /\ (pushPc = "idle" /\ popPc = "idle") =>
         /\ elementCount <= capacity
         /\ headIndex = (tailIndex + elementCount) % capacity
    /\ (pushPc = "tested") => (pushFull = (size = capacity))
    /\ (popPc = "tested") => ~empty
=============================================================================
